---- MODULE Spec2Model ----
(***************************************************************************)
(* CppStreams (src/src/cpp_streams/cpp_streams.hpp, second revision,       *)
(* lines 683-1682): a push-based pipeline library.                         *)
(*                                                                         *)
(* A pipeline expression  source >> pipe1 >> ... >> pipeN >> sink  is      *)
(* modelled as it executes: the expression is composed one  >>  at a time, *)
(* the sink is applied, and the innermost push loop (the source's loop,    *)
(* the replay loop of reverse / sort, or the loop of append's other        *)
(* source) pushes one element per step through the nested callbacks.       *)
(* Every callback invocation and every user-function invocation is         *)
(* recorded, in call order, in the history variable  log.                  *)
(***************************************************************************)
EXTENDS Integers, Sequences, FiniteSets, TLC

\* ------------------------------------------------------------------------
\* Bounds of the model
\* ------------------------------------------------------------------------

\* longest caller-owned container
MaxLen == 3
\* container elements are drawn from 0..MaxVal
MaxVal == 1
\* largest count given to take / skip / from_repeat
MaxCount == 2
\* how many more times a sink is applied to a composed source
MaxRounds == 1

Val == 0..MaxVal

\* all sequences over S of length 0..n
SeqsUpTo(S, n) == UNION {[1..m -> S] : m \in 0..n}

\* ------------------------------------------------------------------------
\* State
\* ------------------------------------------------------------------------

VARIABLES
  container,  \* the caller-owned std::vector<int> a from-source iterates
  src,        \* the source the expression starts with
  plan,       \* the pipes and the sink the caller is going to compose
  stages,     \* the pipes composed so far, upstream first
  sink,       \* the sink applied (NoSink until then)
  pc,         \* "composing" | "running" | "done"
  driver,     \* the stage whose push loop is running; 0 is the source
  iter,       \* the running loop's iterator
  halted,     \* the running loop's callback has returned false
  st,         \* per-stage traversal state (remaining, do_skip, iter, result)
  acc,        \* the sink's accumulator (its local `result`)
  result,     \* the value the sink returned
  log,        \* every callback / user-function invocation, in call order
  original,   \* the container as it was when from (container) was called
  past        \* the sink, result and log of each earlier traversal of the source

vars == <<container, src, plan, stages, sink, pc, driver, iter, halted, st, acc, result, log, original, past>>

\* ------------------------------------------------------------------------
\* User functions handed to pipes and sinks (the test suite's lambdas)
\* ------------------------------------------------------------------------

\* predicates: map_true, map_false, v % 2 == 0, v > 0
Test(f, x) ==
  CASE f = "map_true"  -> TRUE
    [] f = "map_false" -> FALSE
    [] f = "even"      -> x % 2 = 0
    [] f = "positive"  -> x > 0
    [] OTHER           -> FALSE

\* mappers: identity, v + 1, and v -> p (v) ? v + 1 : v for a predicate p
\* (test__mutating_source has p = even)
Apply(f, x) ==
  CASE f = "identity" -> x
    [] f = "inc"      -> x + 1
    [] OTHER          -> IF Test(f, x) THEN x + 1 ELSE x

\* mapi mappers: (i, v) -> i + v, (i, v) -> i
ApplyI(f, i, x) ==
  CASE f = "index"     -> i
    [] f = "add_index" -> i + x
    [] OTHER           -> x

\* key selectors given to sort_by and to_map: v -> v % 2, v -> v / 2,
\* v -> -v, v -> v
Key(f, x) ==
  CASE f = "parity" -> x % 2
    [] f = "half"   -> x \div 2
    [] f = "negate" -> 0 - x
    [] OTHER        -> x

\* folders given to to_fold: (s, v) -> s + v, (s, v) -> 2 * s + v
Folder(f, state, x) ==
  CASE f = "plus"        -> state + x
    [] f = "double_plus" -> 2 * state + x
    [] OTHER             -> state

\* ------------------------------------------------------------------------
\* Sources
\* ------------------------------------------------------------------------

NoSource == [kind |-> "none", begin |-> 0, end |-> 0, value |-> 0]

\* from_iterators captures the two iterators; from (container) passes
\* container.begin () and container.end () as they are when from is called
from_iterators(b, e) == [kind |-> "from", begin |-> b, end |-> e, value |-> 0]

\* faulty variant of from: the end captured is one element short
from_short(c) == from_iterators(1, IF c = <<>> THEN 1 ELSE Len(c))

from(c) == from_iterators(1, Len(c) + 1)

\* from_array (arr) passes arr + 0 and arr + extent
from_array(arr) == from_iterators(1, Len(arr) + 1)

from_range(b, e) == [kind |-> "range", begin |-> b, end |-> e, value |-> 0]

from_repeat(v, count) == [kind |-> "repeat", begin |-> 0, end |-> count, value |-> v]

from_singleton(v) == from_repeat(v, 1)

from_empty == [kind |-> "empty", begin |-> 0, end |-> 0, value |-> 0]

\* ------------------------------------------------------------------------
\* Pipes and sinks as values
\* ------------------------------------------------------------------------

Pipe(kind, n, f, other) == [kind |-> kind, n |-> n, f |-> f, other |-> other]

NoSink == [kind |-> "none", f |-> "none", initial |-> 0]

Sink(kind, f) == [kind |-> kind, f |-> f, initial |-> 0]

\* a sink that is given an initial value: to_max (initial), to_min (initial)
Seeded(kind, initial) == [kind |-> kind, f |-> "none", initial |-> initial]

\* to_fold (initial, folder) as a value
Folding(initial, folder) == [kind |-> "to_fold", f |-> folder, initial |-> initial]

\* an element in flight: its value and what the reference the callback gets
\* refers to: a position of the container (*iter of from_iterators, ref > 0),
\* the loop variable of the running from_range loop (sink (iter), ref = -1),
\* or a temporary or constant (ref = 0)
Elem(x, r) == [val |-> x, ref |-> r]

\* the state a traversal threads through the nested callbacks; bump is what
\* the callbacks have added to the loop variable of the running from_range
\* loop through the reference it pushed
Thread(s, a, c) == [st |-> s, acc |-> a, container |-> c, bump |-> 0]

\* what a callback hands back: its bool, the state, and the invocations made
Ret(r, s, l) == [ret |-> r, s |-> s, log |-> l]

\* log entries: a callback invocation at nesting level lvl (lvl = k is the
\* callback pipe k hands to its upstream; lvl = Len(stages) + 1 is the sink's)
\* and an invocation of the user function of level lvl
Cb(lvl, x, r) == [ev |-> "cb", lvl |-> lvl, val |-> x, ret |-> r]

Fn(lvl, x, r) == [ev |-> "fn", lvl |-> lvl, val |-> x, ret |-> r]

\* an invocation of the callback the pipe of collect lvl's inner source
\* hands to its upstream
Inner(lvl, x, r) == [ev |-> "inner", lvl |-> lvl, val |-> x, ret |-> r]

\* ------------------------------------------------------------------------
\* Sinks: the callback each sink hands to source.source_function
\* ------------------------------------------------------------------------

\* faulty variant of to_vector: the element is inserted at the front
to_vector_prepend(lvl, v, s) ==
  Ret(TRUE, [s EXCEPT !.acc = <<v.val>> \o @], <<Cb(lvl, v.val, TRUE)>>)

\* to_vector: result.push_back (v); return true
to_vector(lvl, v, s) ==
  Ret(TRUE, [s EXCEPT !.acc = Append(@, v.val)], <<Cb(lvl, v.val, TRUE)>>)

\* faulty variant of to_first_or_default: the callback asks for more
to_first_or_default_continue(lvl, v, s) ==
  Ret(TRUE, [s EXCEPT !.acc = v.val], <<Cb(lvl, v.val, TRUE)>>)

\* to_first_or_default: result = v; return false
to_first_or_default(lvl, v, s) ==
  Ret(FALSE, [s EXCEPT !.acc = v.val], <<Cb(lvl, v.val, FALSE)>>)

\* faulty variant of to_last_or_default: the callback stops at the element
\* it stored
to_last_or_default_stops(lvl, v, s) ==
  Ret(FALSE, [s EXCEPT !.acc = v.val], <<Cb(lvl, v.val, FALSE)>>)

\* to_last_or_default: result = v; return true
to_last_or_default(lvl, v, s) ==
  Ret(TRUE, [s EXCEPT !.acc = v.val], <<Cb(lvl, v.val, TRUE)>>)

\* faulty variant of to_all: records the test but never stops the traversal
to_all_keep_going(lvl, v, s) ==
  LET r == Test(sink.f, v.val)
  IN  Ret(TRUE, [s EXCEPT !.acc = r], <<Cb(lvl, v.val, TRUE), Fn(lvl, v.val, r)>>)

\* to_all (tester): return result = tester (v)
to_all(lvl, v, s) ==
  LET r == Test(sink.f, v.val)
  IN  Ret(r, [s EXCEPT !.acc = r], <<Cb(lvl, v.val, r), Fn(lvl, v.val, r)>>)

\* faulty variant of to_any: records the test but never stops the traversal
to_any_keep_going(lvl, v, s) ==
  LET t == Test(sink.f, v.val)
  IN  Ret(TRUE, [s EXCEPT !.acc = ~t], <<Cb(lvl, v.val, TRUE), Fn(lvl, v.val, t)>>)

\* to_any (tester): return result = !tester (v)
to_any(lvl, v, s) ==
  LET t == Test(sink.f, v.val)
  IN  Ret(~t, [s EXCEPT !.acc = ~t], <<Cb(lvl, v.val, ~t), Fn(lvl, v.val, t)>>)

\* the iteration functions given to to_iter:
\*   "inc"       [] (auto && v) { v += 1; return true; }    (test__mutating_source)
\*   "sum"       [&actual] (int v) { actual += v; return true; }
\*   "sum_stop"  [&actual] (user const & v) { actual += v.id; return false; }
\*   "sum_while_even"  [&actual] (int v) { actual += v; return v % 2 == 0; }
\*   "poke_next" [&c, &i] (auto && v) { if (++i < c.size ()) c[i] = v + 1; return true; }
\*               a sink that writes the element after the one it was given
\* v is the reference the pipeline pushed: a write through it lands in the
\* container when the element is *iter of from_iterators (v.ref > 0) and in
\* the loop variable when it is the iter of from_range (v.ref = -1)
iteration(f, v, s) ==
  CASE f = "inc" ->
         [ret |-> TRUE,
          s   |-> IF v.ref > 0
                  THEN [s EXCEPT !.container = [@ EXCEPT ![v.ref] = @ + 1]]
                  ELSE IF v.ref = -1
                  THEN [s EXCEPT !.bump = @ + 1]
                  ELSE s]
    [] f = "sum" ->
         [ret |-> TRUE, s |-> [s EXCEPT !.acc = @ + v.val]]
    [] f = "sum_stop" ->
         [ret |-> FALSE, s |-> [s EXCEPT !.acc = @ + v.val]]
    [] f = "sum_while_even" ->
         [ret |-> v.val % 2 = 0, s |-> [s EXCEPT !.acc = @ + v.val]]
    [] f = "poke_next" ->
         [ret |-> TRUE,
          s   |-> IF v.ref > 0 /\ v.ref < Len(s.container)
                  THEN [s EXCEPT !.container = [@ EXCEPT ![v.ref + 1] = v.val + 1]]
                  ELSE s]
    [] OTHER ->
         [ret |-> TRUE, s |-> s]

\* faulty variant of to_iter: what the iteration function returns is dropped
\* and the callback always asks for more
to_iter_keep_going(lvl, v, s) ==
  LET r == iteration(sink.f, v, s)
  IN  Ret(TRUE, r.s, <<Cb(lvl, v.val, TRUE), Fn(lvl, v.val, r.ret)>>)

\* to_iter (iteration): return iteration (v)
to_iter(lvl, v, s) ==
  LET r == iteration(sink.f, v, s)
  IN  Ret(r.ret, r.s, <<Cb(lvl, v.val, r.ret), Fn(lvl, v.val, r.ret)>>)

\* faulty variant of to_max: the comparison is the one of to_min
to_max_as_min(lvl, v, s) ==
  Ret(TRUE, [s EXCEPT !.acc = IF v.val < @ THEN v.val ELSE @], <<Cb(lvl, v.val, TRUE)>>)

\* to_max (initial): if (result < v) result = v; return true
to_max(lvl, v, s) ==
  Ret(TRUE, [s EXCEPT !.acc = IF @ < v.val THEN v.val ELSE @], <<Cb(lvl, v.val, TRUE)>>)

\* to_min (initial): if (v < result) result = v; return true
to_min(lvl, v, s) ==
  Ret(TRUE, [s EXCEPT !.acc = IF v.val < @ THEN v.val ELSE @], <<Cb(lvl, v.val, TRUE)>>)

\* to_sum: result += v; return true
to_sum(lvl, v, s) ==
  Ret(TRUE, [s EXCEPT !.acc = @ + v.val], <<Cb(lvl, v.val, TRUE)>>)

\* faulty variant of to_fold: the folder gets its arguments in the other order
to_fold_swapped(lvl, v, s) ==
  Ret(TRUE, [s EXCEPT !.acc = Folder(sink.f, v.val, @)],
      <<Cb(lvl, v.val, TRUE), Fn(lvl, v.val, TRUE)>>)

\* to_fold (initial, folder): state = folder (std::move (state), v); return true
to_fold(lvl, v, s) ==
  Ret(TRUE, [s EXCEPT !.acc = Folder(sink.f, @, v.val)],
      <<Cb(lvl, v.val, TRUE), Fn(lvl, v.val, TRUE)>>)

\* to_length: ++result; return true
to_length(lvl, v, s) ==
  Ret(TRUE, [s EXCEPT !.acc = @ + 1], <<Cb(lvl, v.val, TRUE)>>)

\* faulty variant of to_set: the callback returns what insert reports, false
\* for an element the set already holds
to_set_stop_on_duplicate(lvl, v, s) ==
  Ret(v.val \notin s.acc, [s EXCEPT !.acc = @ \cup {v.val}],
      <<Cb(lvl, v.val, v.val \notin s.acc)>>)

\* to_set: result.insert (v); return true   (std::set: no duplicates)
to_set(lvl, v, s) ==
  Ret(TRUE, [s EXCEPT !.acc = @ \cup {v.val}], <<Cb(lvl, v.val, TRUE)>>)

\* to_map (key_selector): result.insert (item_type (key_selector (v), v));
\* return true   (std::map::insert keeps the item a key already has)
to_map(lvl, v, s) ==
  LET key == Key(sink.f, v.val)
  IN  Ret(TRUE,
          [s EXCEPT !.acc = IF \E item \in @ : item[1] = key
                            THEN @
                            ELSE @ \cup {<<key, v.val>>}],
          <<Cb(lvl, v.val, TRUE), Fn(lvl, v.val, TRUE)>>)

\* the callback of the applied sink
SinkCallback(lvl, v, s) ==
  CASE sink.kind = "to_vector"           -> to_vector(lvl, v, s)
    [] sink.kind = "to_first_or_default" -> to_first_or_default(lvl, v, s)
    [] sink.kind = "to_last_or_default"  -> to_last_or_default(lvl, v, s)
    [] sink.kind = "to_all"              -> to_all(lvl, v, s)
    [] sink.kind = "to_any"              -> to_any(lvl, v, s)
    [] sink.kind = "to_iter"             -> to_iter(lvl, v, s)
    [] sink.kind = "to_max"              -> to_max(lvl, v, s)
    [] sink.kind = "to_min"              -> to_min(lvl, v, s)
    [] sink.kind = "to_sum"              -> to_sum(lvl, v, s)
    [] sink.kind = "to_fold"             -> to_fold(lvl, v, s)
    [] sink.kind = "to_length"           -> to_length(lvl, v, s)
    [] sink.kind = "to_set"              -> to_set(lvl, v, s)
    [] sink.kind = "to_map"              -> to_map(lvl, v, s)

\* faulty variant of SinkInit: to_all starts from true (vacuous truth)
SinkInitVacuous(k) ==
  CASE k.kind = "to_vector" -> <<>>
    [] k.kind = "to_all"    -> TRUE
    [] k.kind = "to_any"    -> TRUE
    [] k.kind = "to_max"    -> k.initial
    [] k.kind = "to_min"    -> k.initial
    [] k.kind = "to_fold"   -> k.initial
    [] k.kind = "to_set"    -> {}
    [] k.kind = "to_map"    -> {}
    [] OTHER                -> 0

\* the accumulator each sink starts a traversal with
SinkInit(k) ==
  CASE k.kind = "to_vector"           -> <<>>
    [] k.kind = "to_first_or_default" -> 0
    [] k.kind = "to_last_or_default"  -> 0
    [] k.kind = "to_all"              -> FALSE
    [] k.kind = "to_any"              -> TRUE
    [] k.kind = "to_iter"             -> 0
    [] k.kind = "to_max"              -> k.initial
    [] k.kind = "to_min"              -> k.initial
    [] k.kind = "to_sum"              -> 0
    [] k.kind = "to_fold"             -> k.initial
    [] k.kind = "to_length"           -> 0
    [] k.kind = "to_set"              -> {}
    [] k.kind = "to_map"              -> {}

\* the value each sink returns once source.source_function has returned
SinkResult(k, a) ==
  CASE k.kind = "to_any"  -> ~a
    [] OTHER              -> a

\* ------------------------------------------------------------------------
\* Pipes: the callback each pipe hands to its upstream's source_function.
\* Feed (k, v, s) invokes the callback of nesting level k on element v.
\* ------------------------------------------------------------------------

RECURSIVE Feed(_, _, _)
RECURSIVE Drain(_, _, _, _, _)
RECURSIVE DrainThrough(_, _, _, _, _, _, _)

\* per-stage state at the start of a traversal: take and skip set
\* remaining = count, skip_while do_skip = true, mapi iter = 0, reverse and
\* sort an empty result vector
StageInit(g) == [remaining |-> g.n, do_skip |-> TRUE, iter |-> 0, result |-> <<>>]

\* a callback's own entry followed by what it invoked
Called(k, v, r, before) == Ret(r.ret, r.s, <<Cb(k, v.val, r.ret)>> \o before \o r.log)

\* faulty variant of filter: forwards a copy of the element, not the reference
filter_by_value(k, v, s) ==
  LET t == Test(stages[k].f, v.val)
  IN  IF t
      THEN Called(k, v, Feed(k + 1, Elem(v.val, 0), s), <<Fn(k, v.val, t)>>)
      ELSE Ret(TRUE, s, <<Cb(k, v.val, TRUE), Fn(k, v.val, t)>>)

\* faulty variant of filter: a rejected element ends the traversal
filter_stop_at_rejected(k, v, s) ==
  LET t == Test(stages[k].f, v.val)
  IN  IF t
      THEN Called(k, v, Feed(k + 1, v, s), <<Fn(k, v.val, t)>>)
      ELSE Ret(FALSE, s, <<Cb(k, v.val, FALSE), Fn(k, v.val, t)>>)

\* filter: if (tester (v)) return sink (v); else return true;
filter(k, v, s) ==
  LET t == Test(stages[k].f, v.val)
  IN  IF t
      THEN Called(k, v, Feed(k + 1, v, s), <<Fn(k, v.val, t)>>)
      ELSE Ret(TRUE, s, <<Cb(k, v.val, TRUE), Fn(k, v.val, t)>>)

\* faulty variant of map: the mapper is applied a second time to its result
map_twice(k, v, s) ==
  Called(k, v,
         Feed(k + 1, Elem(Apply(stages[k].f, Apply(stages[k].f, v.val)), 0), s),
         <<Fn(k, v.val, TRUE), Fn(k, Apply(stages[k].f, v.val), TRUE)>>)

\* map: return sink (mapper (v));
map(k, v, s) ==
  Called(k, v, Feed(k + 1, Elem(Apply(stages[k].f, v.val), 0), s), <<Fn(k, v.val, TRUE)>>)

\* faulty variant of mapi: the index is incremented before it is used, so
\* the first element gets index 1
mapi_one_based(k, v, s) ==
  LET i == s.st[k].iter + 1
  IN  Called(k, v,
             Feed(k + 1, Elem(ApplyI(stages[k].f, i, v.val), 0),
                  [s EXCEPT !.st[k].iter = i]),
             <<Fn(k, v.val, TRUE)>>)

\* mapi: return sink (mapper (iter++, v));
mapi(k, v, s) ==
  LET i == s.st[k].iter
  IN  Called(k, v,
             Feed(k + 1, Elem(ApplyI(stages[k].f, i, v.val), 0),
                  [s EXCEPT !.st[k].iter = i + 1]),
             <<Fn(k, v.val, TRUE)>>)

\* faulty variant of skip: the quota test is off by one (remaining <= 1)
skip_one_less(k, v, s) ==
  IF s.st[k].remaining <= 1
  THEN Called(k, v, Feed(k + 1, v, s), <<>>)
  ELSE Ret(TRUE, [s EXCEPT !.st[k].remaining = @ - 1], <<Cb(k, v.val, TRUE)>>)

\* faulty variant of skip: the skipped elements are kept in a buffer
skip_hoarding(k, v, s) ==
  IF s.st[k].remaining = 0
  THEN Called(k, v, Feed(k + 1, v, s), <<>>)
  ELSE Ret(TRUE,
           [s EXCEPT !.st[k].remaining = @ - 1, !.st[k].result = Append(@, v.val)],
           <<Cb(k, v.val, TRUE)>>)

\* skip: if (remaining == 0) return sink (v); else { --remaining; return true; }
skip(k, v, s) ==
  IF s.st[k].remaining = 0
  THEN Called(k, v, Feed(k + 1, v, s), <<>>)
  ELSE Ret(TRUE, [s EXCEPT !.st[k].remaining = @ - 1], <<Cb(k, v.val, TRUE)>>)

\* faulty variant of skip_while: do_skip is never cleared, so the skipper
\* is asked about every element
skip_while_keep_testing(k, v, s) ==
  LET t == Test(stages[k].f, v.val)
  IN  IF t
      THEN Ret(TRUE, s, <<Cb(k, v.val, TRUE), Fn(k, v.val, t)>>)
      ELSE Called(k, v, Feed(k + 1, v, s), <<Fn(k, v.val, t)>>)

\* skip_while: if (!do_skip) return sink (v);
\*             else if (skipper (v)) return true;
\*             else { do_skip = false; return sink (v); }
skip_while(k, v, s) ==
  IF ~s.st[k].do_skip
  THEN Called(k, v, Feed(k + 1, v, s), <<>>)
  ELSE LET t == Test(stages[k].f, v.val)
       IN  IF t
           THEN Ret(TRUE, s, <<Cb(k, v.val, TRUE), Fn(k, v.val, t)>>)
           ELSE Called(k, v, Feed(k + 1, v, [s EXCEPT !.st[k].do_skip = FALSE]),
                       <<Fn(k, v.val, t)>>)

\* faulty variant of take: the quota test is off by one (remaining >= 0)
take_one_more(k, v, s) ==
  IF s.st[k].remaining >= 0
  THEN Called(k, v, Feed(k + 1, v, [s EXCEPT !.st[k].remaining = @ - 1]), <<>>)
  ELSE Ret(FALSE, s, <<Cb(k, v.val, FALSE)>>)

\* take: if (remaining > 0) { --remaining; return sink (v); } else return false;
take(k, v, s) ==
  IF s.st[k].remaining > 0
  THEN Called(k, v, Feed(k + 1, v, [s EXCEPT !.st[k].remaining = @ - 1]), <<>>)
  ELSE Ret(FALSE, s, <<Cb(k, v.val, FALSE)>>)

\* faulty variant of take_while: a rejected element is dropped but the
\* traversal goes on
take_while_keep_going(k, v, s) ==
  LET t == Test(stages[k].f, v.val)
  IN  IF t
      THEN Called(k, v, Feed(k + 1, v, s), <<Fn(k, v.val, t)>>)
      ELSE Ret(TRUE, s, <<Cb(k, v.val, TRUE), Fn(k, v.val, t)>>)

\* take_while: if (taker (v)) return sink (v); else return false;
take_while(k, v, s) ==
  LET t == Test(stages[k].f, v.val)
  IN  IF t
      THEN Called(k, v, Feed(k + 1, v, s), <<Fn(k, v.val, t)>>)
      ELSE Ret(FALSE, s, <<Cb(k, v.val, FALSE), Fn(k, v.val, t)>>)

\* faulty variant of append: what reaches append's callback is dropped
append_drop(k, v, s) ==
  Ret(TRUE, s, <<Cb(k, v.val, TRUE)>>)

\* append: both sub-sources get the callback  return sink (v);
append(k, v, s) ==
  Called(k, v, Feed(k + 1, v, s), <<>>)

\* faulty variant of push_back: the element is buffered and also forwarded
\* at once, before the upstream is exhausted
push_back_forward(k, v, s) ==
  LET r == Feed(k + 1, Elem(v.val, 0), [s EXCEPT !.st[k].result = Append(@, v.val)])
  IN  Ret(TRUE, r.s, <<Cb(k, v.val, TRUE)>> \o r.log)

\* reverse and sort buffer: result.push_back (v); return true;
push_back(k, v, s) ==
  Ret(TRUE, [s EXCEPT !.st[k].result = Append(@, v.val)], <<Cb(k, v.val, TRUE)>>)

\* the elements a source that owns its values pushes, front to back:
\* from_range  for (iter = begin; iter < end && sink (iter); ++iter),
\* from_repeat for (iter = 0U; iter < count && sink (value); ++iter)
Elements(source) ==
  CASE source.kind = "range"  ->
         [i \in 1..(IF source.end > source.begin THEN source.end - source.begin ELSE 0)
            |-> source.begin + i - 1]
    [] source.kind = "repeat" -> [i \in 1..source.end |-> source.value]
    [] OTHER                  -> <<>>

\* the inner sources collectors return:
\*   "range"   v -> from_range (0, v)
\*   "repeat"  v -> from_repeat (v, v)
\*   "pair"    v -> from_range (v, v + 2)
\*   "empty"   v -> from_empty
\*   "pair_take"        v -> from_range (v, v + 2) >> take (1)
\*   "pair_take_while"  v -> from_range (v, v + 2) >> take_while (even)
Select(f, x) ==
  CASE f = "range"  -> from_range(0, x)
    [] f = "repeat" -> from_repeat(x, x)
    [] f \in {"pair", "pair_take", "pair_take_while"} -> from_range(x, x + 2)
    [] OTHER        -> from_empty

NoPipe == Pipe("none", 0, "none", NoSource)

\* the pipe the collector puts on the inner source it returns
InnerPipe(f) ==
  CASE f = "pair_take"       -> Pipe("take", 1, "none", NoSource)
    [] f = "pair_take_while" -> Pipe("take_while", 0, "even", NoSource)
    [] OTHER                 -> NoPipe

\* what the reference a source of this kind pushes refers to when the source
\* owns its values: from_range pushes its loop variable, from_repeat its
\* captured (const) value
RefOf(source) == IF source.kind = "range" THEN -1 ELSE 0

\* an inner source's loop under collect's inner callback
\*   return result = sink (iv);
\* es[i..] are pushed to level k while the callback returns true; r holds
\* collect's local `result`; what a callback added to the loop variable of
\* an inner from_range moves the loop on by as much
Drain(k, es, ref, i, r) ==
  IF i > Len(es) \/ ~r.ret
  THEN r
  ELSE LET n == Feed(k, Elem(es[i], ref), [r.s EXCEPT !.bump = 0])
       IN  Drain(k, es, ref, i + 1 + n.s.bump,
                 Ret(n.ret, [n.s EXCEPT !.bump = 0], r.log \o n.log))

\* faulty variant of the loop below: when the inner pipe ends the inner
\* traversal, collect's result becomes false
DrainThroughStopping(k, g, rem, es, ref, i, r) ==
  IF i > Len(es) \/ ~r.ret
  THEN r
  ELSE IF \/ g.kind = "take" /\ rem = 0
          \/ g.kind = "take_while" /\ ~Test(g.f, es[i])
       THEN Ret(FALSE, r.s, r.log \o <<Inner(k - 1, es[i], FALSE)>>)
       ELSE LET n == Feed(k, Elem(es[i], ref), [r.s EXCEPT !.bump = 0])
            IN  DrainThrough(k, g, IF g.kind = "take" THEN rem - 1 ELSE rem,
                             es, ref, i + 1 + n.s.bump,
                             Ret(n.ret, [n.s EXCEPT !.bump = 0],
                                 r.log \o <<Inner(k - 1, es[i], n.ret)>> \o n.log))

\* an inner source with a pipe g on it, under collect's inner callback: the
\* inner source's loop calls the callback of g,
\*   take        if (remaining > 0) { --remaining; return sink (v); }
\*               else return false;                   (rem is `remaining`)
\*   take_while  if (taker (v)) return sink (v); else return false;
\* whose sink is collect's inner callback  return result = sink (iv);
\* when g returns false without calling it, the loop ends and collect's
\* `result` (r.ret) keeps the value it has
DrainThrough(k, g, rem, es, ref, i, r) ==
  IF i > Len(es) \/ ~r.ret
  THEN r
  ELSE IF \/ g.kind = "take" /\ rem = 0
          \/ g.kind = "take_while" /\ ~Test(g.f, es[i])
       THEN [r EXCEPT !.log = @ \o <<Inner(k - 1, es[i], FALSE)>>]
       ELSE LET n == Feed(k, Elem(es[i], ref), [r.s EXCEPT !.bump = 0])
            IN  DrainThrough(k, g, IF g.kind = "take" THEN rem - 1 ELSE rem,
                             es, ref, i + 1 + n.s.bump,
                             Ret(n.ret, [n.s EXCEPT !.bump = 0],
                                 r.log \o <<Inner(k - 1, es[i], n.ret)>> \o n.log))

\* faulty variant of collect: result starts from false, so an empty inner
\* source ends the traversal
collect_stop_on_empty(k, v, s) ==
  LET es == Elements(Select(stages[k].f, v.val))
  IN  IF es = <<>>
      THEN Ret(FALSE, s, <<Cb(k, v.val, FALSE), Fn(k, v.val, TRUE)>>)
      ELSE Called(k, v,
                  Drain(k + 1, es, RefOf(Select(stages[k].f, v.val)), 1, Ret(TRUE, s, <<>>)),
                  <<Fn(k, v.val, TRUE)>>)

\* collect: auto result = true; auto inner_source = collector (v);
\*          inner_source.source_function (...); return result;
collect(k, v, s) ==
  Called(k, v,
         IF InnerPipe(stages[k].f) = NoPipe
         THEN Drain(k + 1, Elements(Select(stages[k].f, v.val)),
                    RefOf(Select(stages[k].f, v.val)), 1, Ret(TRUE, s, <<>>))
         ELSE DrainThrough(k + 1, InnerPipe(stages[k].f), InnerPipe(stages[k].f).n,
                           Elements(Select(stages[k].f, v.val)),
                           RefOf(Select(stages[k].f, v.val)), 1, Ret(TRUE, s, <<>>)),
         <<Fn(k, v.val, TRUE)>>)

Feed(k, v, s) ==
  IF k > Len(stages)
  THEN SinkCallback(k, v, s)
  ELSE CASE stages[k].kind = "filter"     -> filter(k, v, s)
         [] stages[k].kind = "map"        -> map(k, v, s)
         [] stages[k].kind = "mapi"       -> mapi(k, v, s)
         [] stages[k].kind = "skip"       -> skip(k, v, s)
         [] stages[k].kind = "skip_while" -> skip_while(k, v, s)
         [] stages[k].kind = "take"       -> take(k, v, s)
         [] stages[k].kind = "take_while" -> take_while(k, v, s)
         [] stages[k].kind = "append"     -> append(k, v, s)
         [] stages[k].kind = "collect"    -> collect(k, v, s)
         [] stages[k].kind = "reverse"    -> push_back(k, v, s)
         [] stages[k].kind = "sort"       -> push_back(k, v, s)

\* ------------------------------------------------------------------------
\* Push loops
\* ------------------------------------------------------------------------

\* the stages that run a push loop of their own once their upstream's
\* source_function has returned: append (its other source), reverse and
\* sort (the replay of their buffer)
Drives(g) == g.kind \in {"append", "reverse", "sort"}

\* what the running loop iterates: the expression's source, append's
\* other_source, or the buffer of reverse / sort
Running ==
  IF driver = 0 THEN src
  ELSE IF stages[driver].kind = "append" THEN stages[driver].other
  ELSE [kind |-> stages[driver].kind, begin |-> 0, end |-> 0, value |-> 0]

\* faulty variant of More: from_repeat's loop tests iter <= count
MoreRepeatInclusive ==
  CASE Running.kind = "from"    -> iter # Running.end
    [] Running.kind = "range"   -> iter < Running.end
    [] Running.kind = "repeat"  -> iter <= Running.end
    [] Running.kind = "reverse" -> iter # 0
    [] Running.kind = "sort"    -> iter < Len(st[driver].result)
    [] OTHER                    -> FALSE

\* the running loop's condition, before its  && sink (...)
More ==
  CASE Running.kind = "from"    -> iter # Running.end
    [] Running.kind = "range"   -> iter < Running.end
    [] Running.kind = "repeat"  -> iter < Running.end
    [] Running.kind = "reverse" -> iter # 0
    [] Running.kind = "sort"    -> iter < Len(st[driver].result)
    [] OTHER                    -> FALSE

\* faulty variant of Current: from copies the container when it is called
\* and the loop reads the copy
CurrentSnapshot ==
  CASE Running.kind = "from"    -> Elem(original[iter], iter)
    [] Running.kind = "range"   -> Elem(iter, -1)
    [] Running.kind = "repeat"  -> Elem(Running.value, 0)
    [] Running.kind = "reverse" -> Elem(st[driver].result[iter], 0)
    [] Running.kind = "sort"    -> Elem(st[driver].result[iter + 1], 0)

\* the element the running loop pushes: *iter, iter, value,
\* std::move (result[--iter]), std::move (result[iter])
Current ==
  CASE Running.kind = "from"    -> Elem(container[iter], iter)
    [] Running.kind = "range"   -> Elem(iter, -1)
    [] Running.kind = "repeat"  -> Elem(Running.value, 0)
    [] Running.kind = "reverse" -> Elem(st[driver].result[iter], 0)
    [] Running.kind = "sort"    -> Elem(st[driver].result[iter + 1], 0)

\* the iterator after one pass of the loop whose callback returned r:
\* ++iter is reached only when the callback returned true; reverse has
\* already decremented before the call
Advance(r) ==
  CASE Running.kind = "reverse" -> iter - 1
    [] OTHER                    -> IF r THEN iter + 1 ELSE iter

\* faulty variant of Begin: reverse starts its replay one element short of
\* the end of its buffer
BeginOneShort(j) ==
  CASE stages[j].kind = "append"  -> stages[j].other.begin
    [] stages[j].kind = "reverse" -> IF st[j].result = <<>> THEN 0 ELSE Len(st[j].result) - 1
    [] OTHER                      -> 0

\* where a loop starts
Begin(j) ==
  CASE stages[j].kind = "append"  -> stages[j].other.begin
    [] stages[j].kind = "reverse" -> Len(st[j].result)
    [] OTHER                      -> 0

\* the comparators given to sort directly:  l < r  and  l > r
Comparators == {"less", "greater"}

\* faulty variant of Less: the comparator sort_by derives ignores the key
\* selector and compares the elements
LessByValue(f, l, r) ==
  CASE f = "greater" -> l > r
    [] OTHER         -> l < r

\* the sorter sort runs std::sort with: "less" is  l < r, "greater" is
\* l > r; any other name is the comparator sort_by derives from that key
\* selector,  selector (l) < selector (r)
Less(f, l, r) ==
  CASE f = "less"    -> l < r
    [] f = "greater" -> l > r
    [] OTHER         -> Key(f, l) < Key(f, r)

\* sort_by (selector) is sort with the derived comparator
sort_by(selector) == [kind |-> "sort", n |-> 0, f |-> selector, other |-> NoSource]

\* xs without its i-th element
Without(xs, i) == [j \in 1..(Len(xs) - 1) |-> IF j < i THEN xs[j] ELSE xs[j + 1]]

\* faulty variant of Sorted: the buffer is replayed as it was filled
Unsorted(f, xs) == {xs}

RECURSIVE Sorted(_, _)

\* std::sort (result.begin (), result.end (), sorter): the orders of result
\* in which no element is ordered before an earlier one. std::sort is not
\* stable, so equivalent elements may come out in any order: every such
\* order is built by taking, again and again, an element that no remaining
\* element is ordered before
Sorted(f, xs) ==
  IF xs = <<>>
  THEN {<<>>}
  ELSE UNION {{<<xs[i]>> \o ys : ys \in Sorted(f, Without(xs, i))} :
                i \in {m \in 1..Len(xs) : \A o \in 1..Len(xs) : ~Less(f, xs[o], xs[m])}}

\* ------------------------------------------------------------------------
\* Actions
\* ------------------------------------------------------------------------

\* faulty variant of Compose: a pipe that starts pulling from its upstream
\* as soon as it is composed
ComposeEager ==
  /\ pc = "composing"
  /\ Len(stages) < Len(plan.pipes)
  /\ stages' = Append(stages, plan.pipes[Len(stages) + 1])
  /\ log' = IF src.kind = "from" /\ src.begin # src.end
            THEN log \o <<Cb(Len(stages) + 1, container[src.begin], TRUE)>>
            ELSE log
  /\ UNCHANGED <<container, src, plan, sink, pc, driver, iter, halted, st, acc, result, original, past>>

\* source >> pipe: operator >> returns pipe (source), a new source that
\* holds the upstream source and the pipe's arguments; nothing runs
Compose ==
  /\ pc = "composing"
  /\ Len(stages) < Len(plan.pipes)
  /\ stages' = Append(stages, plan.pipes[Len(stages) + 1])
  /\ UNCHANGED <<container, src, plan, sink, pc, driver, iter, halted, st, acc, result, log, original, past>>

\* source >> sink: operator >> calls sink (source); the sink sets up its
\* result and calls source.source_function, every pipe sets up its
\* per-traversal state and calls its upstream, and the source's loop starts
ApplySink ==
  /\ pc = "composing"
  /\ Len(stages) = Len(plan.pipes)
  /\ sink' = plan.sink
  /\ st' = [k \in 1..Len(stages) |-> StageInit(stages[k])]
  /\ acc' = SinkInit(plan.sink)
  /\ pc' = "running"
  /\ driver' = 0
  /\ iter' = src.begin
  /\ halted' = FALSE
  /\ UNCHANGED <<container, src, plan, stages, result, log, original, past>>

\* faulty variant of Push: the loop ignores what its callback returned
PushIgnoringStop ==
  /\ pc = "running"
  /\ More
  /\ LET r == Feed(driver + 1, Current, Thread(st, acc, container))
     IN  /\ st' = r.s.st
         /\ acc' = r.s.acc
         /\ container' = r.s.container
         /\ log' = log \o r.log
         /\ halted' = FALSE
         /\ iter' = Advance(TRUE) + r.s.bump
  /\ UNCHANGED <<src, plan, stages, sink, pc, driver, result, original, past>>

\* one pass of the running loop: its condition holds, the element goes
\* through the callbacks downstream of the loop, and the callback's result
\* decides whether the loop goes on; what the callbacks wrote to the loop
\* variable of from_range is in iter when ++iter runs
Push ==
  /\ pc = "running"
  /\ ~halted
  /\ More
  /\ LET r == Feed(driver + 1, Current, Thread(st, acc, container))
     IN  /\ st' = r.s.st
         /\ acc' = r.s.acc
         /\ container' = r.s.container
         /\ log' = log \o r.log
         /\ halted' = ~r.ret
         /\ iter' = Advance(r.ret) + r.s.bump
  /\ UNCHANGED <<src, plan, stages, sink, pc, driver, result, original, past>>

\* the running loop is over (exhausted, or its callback returned false) and
\* its source_function returns: the next stage downstream with a loop of its
\* own runs it (sort sorts its buffer first); with none left, control is back
\* in the sink, which returns its result
Leave ==
  /\ pc = "running"
  /\ halted \/ ~More
  /\ LET later == {j \in (driver + 1)..Len(stages) : Drives(stages[j])}
     IN  IF later = {}
         THEN /\ pc' = "done"
              /\ result' = SinkResult(sink, acc)
              /\ UNCHANGED <<driver, iter, halted, st>>
         ELSE LET j == CHOOSE m \in later : \A o \in later : m <= o
              IN  /\ driver' = j
                  /\ halted' = FALSE
                  /\ \E ys \in (IF stages[j].kind = "sort"
                                THEN Sorted(stages[j].f, st[j].result)
                                ELSE {st[j].result}) :
                       st' = [st EXCEPT ![j].result = ys]
                  /\ iter' = Begin(j)
                  /\ UNCHANGED <<pc, result>>
  /\ UNCHANGED <<container, src, plan, stages, sink, acc, log, original, past>>

\* the caller writes an element of its container after from (container) was
\* called and before the sink is applied
Write ==
  /\ pc = "composing"
  /\ container = original
  /\ \E i \in 1..Len(container), w \in Val :
       /\ w # container[i]
       /\ container' = [container EXCEPT ![i] = w]
  /\ UNCHANGED <<src, plan, stages, sink, pc, driver, iter, halted, st, acc, result, log, original, past>>

\* the sinks a composed source is given when it is used again
SinksAgain ==
  {Sink("to_vector", "none"), Sink("to_first_or_default", "none"),
   Sink("to_length", "none"), Sink("to_iter", "inc")}

\* faulty variant of Reapply: the pipes' state (remaining, do_skip, iter,
\* result) is kept in the composed source and lives on between traversals
ReapplyKeepingState ==
  /\ pc = "done"
  /\ Len(past) < MaxRounds
  /\ \E k \in SinksAgain :
       /\ sink' = k
       /\ acc' = SinkInit(k)
  /\ past' = Append(past, [sink |-> sink, result |-> result, log |-> log])
  /\ pc' = "running"
  /\ driver' = 0
  /\ iter' = src.begin
  /\ halted' = FALSE
  /\ result' = 0
  /\ log' = <<>>
  /\ UNCHANGED <<container, src, plan, stages, st, original>>

\* the composed source is given a sink once more: sink (source) calls
\* source.source_function again, and every pipe's source function starts by
\* creating its locals (auto remaining = count; auto do_skip = true;
\* std::size_t iter = 0U; std::vector<...> result;) anew
Reapply ==
  /\ pc = "done"
  /\ Len(past) < MaxRounds
  /\ \E k \in SinksAgain :
       /\ sink' = k
       /\ acc' = SinkInit(k)
  /\ past' = Append(past, [sink |-> sink, result |-> result, log |-> log])
  /\ st' = [k \in 1..Len(stages) |-> StageInit(stages[k])]
  /\ pc' = "running"
  /\ driver' = 0
  /\ iter' = src.begin
  /\ halted' = FALSE
  /\ result' = 0
  /\ log' = <<>>
  /\ UNCHANGED <<container, src, plan, stages, original>>

Next == Compose \/ ApplySink \/ Push \/ Leave

\* ------------------------------------------------------------------------
\* Pipeline expressions the caller composes
\* ------------------------------------------------------------------------

Plan(pipes, k) == [pipes |-> pipes, sink |-> k]

\* the rest of the state after  from (container)  (or another source
\* constructor) has returned, with the caller about to compose its plan
Fresh ==
  /\ original = container
  /\ stages = <<>>
  /\ sink = NoSink
  /\ pc = "composing"
  /\ driver = 0
  /\ iter = 0
  /\ halted = FALSE
  /\ st = <<>>
  /\ acc = 0
  /\ result = 0
  /\ log = <<>>
  /\ past = <<>>

Containers == SeqsUpTo(Val, MaxLen)

\* the source the expression starts with: from (container), or, under an
\* empty container (they do not read it), a source that owns its values
Sources(c) ==
  {from(c), from_array(c)}
    \cup (IF c # <<>> THEN {}
          ELSE {from_empty}
                 \cup {from_range(b, e) : b \in 0..1, e \in 0..MaxCount}
                 \cup {from_repeat(v, n) : v \in Val, n \in 0..MaxCount}
                 \cup {from_singleton(v) : v \in Val})

\* the pipes composed in the general specification; append's other source is
\* built when append (...) is evaluated, from the same container or a range
Pipes(c) ==
  {Pipe("filter", 0, "even", NoSource),
   Pipe("map", 0, "inc", NoSource),
   Pipe("mapi", 0, "add_index", NoSource),
   Pipe("skip_while", 0, "even", NoSource),
   Pipe("take_while", 0, "even", NoSource),
   Pipe("append", 0, "none", from(c)),
   Pipe("append", 0, "none", from_range(0, MaxCount)),
   Pipe("collect", 0, "range", NoSource),
   Pipe("reverse", 0, "none", NoSource),
   Pipe("sort", 0, "less", NoSource),
   sort_by("parity")}
    \cup {Pipe("skip", n, "none", NoSource) : n \in 0..MaxCount}
    \cup {Pipe("take", n, "none", NoSource) : n \in 0..MaxCount}

Testers == {"map_true", "map_false", "even", "positive"}

\* the initial values given to to_max and to_min
Initials == {-1, 0, MaxVal, MaxVal + 1}

\* sinks that leave the container alone
Sinks ==
  {Sink("to_vector", "none"), Sink("to_first_or_default", "none"),
   Sink("to_last_or_default", "none"), Sink("to_iter", "sum_stop"),
   Sink("to_sum", "none"), Sink("to_length", "none"), Sink("to_set", "none"),
   Sink("to_map", "parity"), Folding(0, "plus"),
   Seeded("to_max", 0), Seeded("to_min", 0)}
    \cup {Sink("to_all", f) : f \in Testers}
    \cup {Sink("to_any", f) : f \in Testers}

\* every expression of at most one pipe and any sink, every expression of
\* two pipes under to_vector (drains everything) or to_first_or_default
\* (stops at once), the two expressions of test__mutating_source for
\* every predicate, filter, skip_while and take_while with every predicate
\* under to_vector, append of an empty and of a repeating source,
\* collect with every collector, to_iter with every iteration function
\* applied to the source directly, and sort and sort_by with every
\* comparator and key selector, mapi with the mapper that returns the
\* index, to_max and to_min applied to the source directly with an
\* initial value below, among and above the values, and to_fold and to_map
\* applied to the source directly with every folder and key selector
Plans(c) ==
  {Plan(ps, k) : ps \in SeqsUpTo(Pipes(c), 1), k \in Sinks}
    \cup {Plan(ps, k) : ps \in [1..2 -> Pipes(c)],
                        k \in {Sink("to_vector", "none"), Sink("to_first_or_default", "none")}}
    \cup {Plan(<<Pipe("filter", 0, f, NoSource)>>, Sink("to_iter", "inc")) : f \in Testers}
    \cup {Plan(<<Pipe("map", 0, f, NoSource)>>, Sink("to_vector", "none")) : f \in Testers}
    \cup {Plan(<<Pipe(kind, 0, f, NoSource)>>, Sink("to_vector", "none")) :
             kind \in {"filter", "skip_while", "take_while"}, f \in Testers}
    \cup {Plan(<<Pipe("append", 0, "none", b)>>, Sink("to_vector", "none")) :
             b \in {from_empty, from_repeat(1, MaxCount)}}
    \cup {Plan(<<Pipe("collect", 0, f, NoSource)>>, Sink("to_vector", "none")) :
             f \in {"range", "repeat", "pair", "empty", "pair_take", "pair_take_while"}}
    \cup {Plan(<<Pipe("collect", 0, f, NoSource)>>, Sink("to_first_or_default", "none")) :
             f \in {"pair_take", "pair_take_while"}}
    \cup {Plan(<<>>, Sink("to_iter", f)) : f \in {"inc", "sum", "sum_while_even"}}
    \cup {Plan(<<Pipe("sort", 0, f, NoSource)>>, Sink("to_vector", "none")) : f \in Comparators}
    \cup {Plan(<<sort_by(f)>>, Sink("to_vector", "none")) : f \in {"parity", "half", "negate"}}
    \cup {Plan(<<Pipe("mapi", 0, "index", NoSource)>>, Sink("to_vector", "none"))}
    \cup {Plan(<<>>, Seeded(kind, i)) : kind \in {"to_max", "to_min"}, i \in Initials}
    \cup {Plan(<<>>, Folding(i, f)) : i \in {0, 1}, f \in {"plus", "double_plus"}}
    \cup {Plan(<<>>, Sink("to_map", f)) : f \in {"identity", "parity", "half"}}

Init ==
  /\ container \in Containers
  /\ src \in Sources(container)
  /\ plan \in Plans(container)
  /\ Fresh

Spec == Init /\ [][Next]_vars

\* a caller that writes its container between from (container) and the
\* sink, and sinks that write the element after the one they were given
PlansLive(c) ==
  {Plan(ps, k) : ps \in SeqsUpTo({Pipe("filter", 0, "positive", NoSource),
                                  Pipe("skip", 1, "none", NoSource)}, 1),
                 k \in {Sink("to_vector", "none"), Sink("to_iter", "poke_next"),
                        Sink("to_first_or_default", "none")}}

SourcesLive(c) == {from(c)}

InitLive ==
  /\ container \in Containers
  /\ src \in SourcesLive(container)
  /\ plan \in PlansLive(container)
  /\ Fresh

NextLive == Compose \/ Write \/ ApplySink \/ Push \/ Leave

SpecLive == InitLive /\ [][NextLive]_vars

\* a caller that keeps the composed source and applies sinks to it again.
\* std::sort is a function of the vector it is given, so the sorters here
\* are the ones that leave it one possible order
PipesAgain(c) ==
  {Pipe("filter", 0, "even", NoSource),
   Pipe("map", 0, "inc", NoSource),
   Pipe("mapi", 0, "index", NoSource),
   Pipe("skip", 1, "none", NoSource),
   Pipe("skip_while", 0, "even", NoSource),
   Pipe("take", 1, "none", NoSource),
   Pipe("take_while", 0, "even", NoSource),
   Pipe("append", 0, "none", from_range(0, MaxCount)),
   Pipe("collect", 0, "pair_take", NoSource),
   Pipe("reverse", 0, "none", NoSource),
   Pipe("sort", 0, "greater", NoSource),
   sort_by("negate")}

\* the pipes with state of their own in a traversal
PipesWithState ==
  {Pipe("mapi", 0, "index", NoSource),
   Pipe("skip", 1, "none", NoSource),
   Pipe("skip_while", 0, "even", NoSource),
   Pipe("take", 1, "none", NoSource),
   Pipe("reverse", 0, "none", NoSource),
   Pipe("sort", 0, "greater", NoSource)}

PlansAgain(c) ==
  {Plan(ps, k) : ps \in SeqsUpTo(PipesAgain(c), 1), k \in SinksAgain}
    \cup {Plan(<<a, b>>, Sink("to_vector", "none")) : a, b \in PipesWithState}

InitAgain ==
  /\ container \in Containers
  /\ src \in Sources(container)
  /\ plan \in PlansAgain(container)
  /\ Fresh

NextAgain == Compose \/ ApplySink \/ Push \/ Leave \/ Reapply

SpecAgain == InitAgain /\ [][NextAgain]_vars

\* ------------------------------------------------------------------------
\* Reading the log
\* ------------------------------------------------------------------------

\* the invocations of the callback of level l, in order
CallsAt(l) == SelectSeq(log, LAMBDA e : e.ev = "cb" /\ e.lvl = l)

\* the invocations of the user function of level l, in order
FnAt(l) == SelectSeq(log, LAMBDA e : e.ev = "fn" /\ e.lvl = l)

\* the callback of level l was not invoked again once it had returned false
StopsOnce(l) ==
  \A i \in 1..Len(CallsAt(l)) : ~CallsAt(l)[i].ret => i = Len(CallsAt(l))

\* every invocation of the callback of level k during which the callback of
\* level k + 1 returned false has returned false itself
ReturnsStop(k) ==
  \A i \in 1..Len(log) :
    (log[i].ev = "cb" /\ log[i].lvl = k + 1 /\ ~log[i].ret) =>
      \A j \in 1..(i - 1) :
        (/\ log[j].ev = "cb" /\ log[j].lvl = k
         /\ \A m \in (j + 1)..(i - 1) : ~(log[m].ev = "cb" /\ log[m].lvl = k))
          => ~log[j].ret

Min(a, b) == IF a < b THEN a ELSE b

SinkLevel == Len(stages) + 1

\* the expression is  from (container) >> pipe >> sink  for one pipe of this kind
FromPipe(kind) ==
  /\ src.kind = "from"
  /\ Len(stages) = 1
  /\ stages[1].kind = kind
  /\ pc # "composing"

\* the expression is  from (container) >> sink
FromSink(kind) ==
  /\ src.kind = "from"
  /\ stages = <<>>
  /\ sink.kind = kind

\* ------------------------------------------------------------------------
\* Stop propagation
\* ------------------------------------------------------------------------

\* C1: in a >> append (b), once the callback downstream of append has
\* returned false the chain halts: that callback is not invoked again, so no
\* element of b is delivered after a stop
C1_AppendHaltsOnStop ==
  \A k \in 1..Len(stages) : stages[k].kind = "append" => StopsOnce(k + 1)

\* the pipes C2 is about
StopStages ==
  {"filter", "map", "mapi", "skip", "skip_while", "take", "take_while", "reverse", "sort"}

\* C2: for filter, map, mapi, skip, skip_while, take, take_while and the
\* replay loops of reverse and sort: when the downstream callback returns
\* false for a forwarded element, the stage returns false to its upstream
\* (the replay loop is left) and the downstream callback is not invoked again
\* during that traversal
C2_StagesHaltOnStop ==
  \A k \in 1..Len(stages) :
    stages[k].kind \in StopStages =>
      /\ StopsOnce(k + 1)
      /\ stages[k].kind \notin {"reverse", "sort"} => ReturnsStop(k)

\* C2 holds of every expression with no append upstream of the stage
C2_HoldsWithoutAppendUpstream ==
  \A k \in 1..Len(stages) :
    (/\ stages[k].kind \in StopStages
     /\ \A j \in 1..(k - 1) : stages[j].kind # "append") =>
      /\ StopsOnce(k + 1)
      /\ stages[k].kind \notin {"reverse", "sort"} => ReturnsStop(k)

\* what the source of the expression holds, front to back
SourceValues ==
  CASE src.kind = "from"   -> SubSeq(original, src.begin, src.end - 1)
    [] src.kind = "range"  -> [i \in 1..(IF src.begin < src.end THEN src.end - src.begin ELSE 0)
                                 |-> src.begin + (i - 1)]
    [] src.kind = "repeat" -> [i \in 1..src.end |-> src.value]
    [] OTHER               -> <<>>

\* C3: the sources built by from / from_iterators / from_array, from_range
\* and from_repeat invoke the callback on their elements front to back, and
\* not again after the first invocation that returned false; a traversal
\* nothing stopped has pushed every element
C3_SourceFrontToBack ==
  LET calls == CallsAt(1)
  IN  /\ Len(calls) <= Len(SourceValues)
      /\ \A i \in 1..Len(calls) : calls[i].val = SourceValues[i]
      /\ StopsOnce(1)
      /\ (pc = "done" /\ (calls = <<>> \/ calls[Len(calls)].ret)) => Len(calls) = Len(SourceValues)

\* a traversal of a source of several elements that was stopped before its end
C3_Witness ==
  /\ pc = "done"
  /\ src.kind \in {"from", "range", "repeat"}
  /\ CallsAt(1) # <<>>
  /\ ~CallsAt(1)[Len(CallsAt(1))].ret
  /\ Len(CallsAt(1)) >= 2
  /\ Len(CallsAt(1)) < Len(SourceValues)

\* C3 holds of every traversal in which no callback writes the loop variable
\* of from_range through the reference it is given
C3_HoldsWithoutLoopVariableWrite ==
  (src.kind # "range" \/ sink.f # "inc") => C3_SourceFrontToBack

\* ------------------------------------------------------------------------
\* take and to_first_or_default
\* ------------------------------------------------------------------------

\* C4: in from (xs) >> take (n) >> sink the source delivers no more than n
\* elements to take; for n = 0 it invokes take's callback zero times
C4_TakePullsAtMostN ==
  FromPipe("take") => Len(CallsAt(1)) <= stages[1].n

\* what the code does: the source delivers one element more than take
\* forwards, unless it runs out first
C4_TakePullsOneMore ==
  (FromPipe("take") /\ pc = "done" /\ sink.kind = "to_vector") =>
    Len(CallsAt(1)) = Min(stages[1].n + 1, Len(container))

\* C5: from (xs) >> take (n) >> to_vector is the first min (n, len (xs))
\* elements of xs, in order
C5_TakeIsPrefix ==
  (FromPipe("take") /\ pc = "done" /\ sink.kind = "to_vector") =>
    /\ Len(result) = Min(stages[1].n, Len(container))
    /\ result = SubSeq(container, 1, Min(stages[1].n, Len(container)))

\* a take that cut a longer container short
C5_Witness ==
  /\ FromPipe("take") /\ pc = "done" /\ sink.kind = "to_vector"
  /\ stages[1].n > 0
  /\ stages[1].n < Len(container)
  /\ Len(result) = stages[1].n

\* C6: from (xs) >> to_first_or_default returns xs[0], or the default value
\* (int () = 0) when xs is empty, and on a non-empty xs the source invokes the
\* sink's callback exactly once
C6_FirstOrDefault ==
  (FromSink("to_first_or_default") /\ pc = "done") =>
    /\ result = (IF container = <<>> THEN 0 ELSE container[1])
    /\ Len(CallsAt(1)) = (IF container = <<>> THEN 0 ELSE 1)

\* to_first_or_default over several elements, the first of them not the default
C6_Witness ==
  /\ FromSink("to_first_or_default") /\ pc = "done"
  /\ Len(container) >= 2
  /\ container[1] # 0
  /\ result = container[1]

\* ------------------------------------------------------------------------
\* The live container
\* ------------------------------------------------------------------------

\* C7: from (container) reads the container at traversal time: every element
\* the source pushes is the value the container holds at that position, also
\* when the caller wrote it after from was called or the sink wrote it earlier
\* in the same traversal
C7_ReadsLiveContainer ==
  src.kind = "from" =>
    \A i \in 1..Len(CallsAt(1)) : CallsAt(1)[i].val = container[i]

\* a traversal that pushed a value written after from was called
C7_Witness ==
  /\ pc = "done"
  /\ src.kind = "from"
  /\ \E i \in 1..Len(CallsAt(1)) :
       /\ CallsAt(1)[i].val # original[i]
       /\ CallsAt(1)[i].val = container[i]

\* C7, the write made by the sink during the traversal
C7_WitnessSinkWrite ==
  /\ C7_Witness
  /\ sink = Sink("to_iter", "poke_next")

\* v -> p (v) ? v + 1 : v over xs
IncrementedWhere(f, xs) == [i \in 1..Len(xs) |-> IF Test(f, xs[i]) THEN xs[i] + 1 ELSE xs[i]]

\* C8: from (xs) >> filter (p) >> to_iter (v => { v += 1; return true; })
\* increments exactly the elements of xs that satisfied p and leaves the
\* rest, the length and the order alone: xs ends up equal to
\* from (original_xs) >> map (v => p (v) ? v + 1 : v) >> to_vector
C8_FilterMutatesInPlace ==
  /\ (FromPipe("filter") /\ pc = "done" /\ sink = Sink("to_iter", "inc")) =>
       container = IncrementedWhere(stages[1].f, original)
  /\ (FromPipe("map") /\ pc = "done" /\ sink.kind = "to_vector" /\ stages[1].f \in Testers) =>
       /\ result = IncrementedWhere(stages[1].f, original)
       /\ container = original

\* test__mutating_source on a container with elements of both kinds
C8_Witness ==
  /\ FromPipe("filter") /\ pc = "done" /\ sink = Sink("to_iter", "inc")
  /\ stages[1].f = "even"
  /\ \E i, j \in 1..Len(container) :
       /\ original[i] % 2 = 0 /\ container[i] = original[i] + 1
       /\ original[j] % 2 = 1 /\ container[j] = original[j]

\* ------------------------------------------------------------------------
\* Composition
\* ------------------------------------------------------------------------

\* C9: composing source >> pipe invokes no source push procedure, no
\* callback and no user function: until a sink is applied nothing has been
\* invoked, no traversal state exists and the container is untouched
C9_CompositionIsInert ==
  pc = "composing" =>
    /\ log = <<>>
    /\ st = <<>>
    /\ iter = 0
    /\ container = original

\* two pipes composed over a non-empty container, no sink applied yet
C9_Witness ==
  /\ pc = "composing"
  /\ Len(stages) = 2
  /\ src.kind = "from"
  /\ container # <<>>

\* ------------------------------------------------------------------------
\* Quantifier sinks
\* ------------------------------------------------------------------------

\* the source of the expression has no element
EmptySource ==
  CASE src.kind = "from"   -> src.begin = src.end
    [] src.kind = "range"  -> src.begin >= src.end
    [] src.kind = "repeat" -> src.end = 0
    [] OTHER               -> TRUE

\* C10: on an empty source to_any (pred) and to_all (pred) both return
\* false, whatever pred is, and pred is never invoked
C10_EmptyQuantifiers ==
  (/\ pc = "done" /\ stages = <<>> /\ EmptySource
   /\ sink.kind \in {"to_any", "to_all"}) =>
    /\ result = FALSE
    /\ log = <<>>

\* to_all (map_true) over an empty container
C10_Witness ==
  /\ pc = "done" /\ stages = <<>>
  /\ src.kind = "from" /\ container = <<>>
  /\ sink = Sink("to_all", "map_true")
  /\ result = FALSE

\* position of the first element of xs that f rejects, Len (xs) + 1 if none
FirstRejected(f, xs) ==
  IF \A i \in 1..Len(xs) : Test(f, xs[i])
  THEN Len(xs) + 1
  ELSE CHOOSE i \in 1..Len(xs) :
         ~Test(f, xs[i]) /\ \A j \in 1..(i - 1) : Test(f, xs[j])

\* position of the first element of xs that f accepts, Len (xs) + 1 if none
FirstAccepted(f, xs) ==
  IF \A i \in 1..Len(xs) : ~Test(f, xs[i])
  THEN Len(xs) + 1
  ELSE CHOOSE i \in 1..Len(xs) :
         Test(f, xs[i]) /\ \A j \in 1..(i - 1) : ~Test(f, xs[j])

\* C11: from (xs) >> to_all (pred) returns true exactly when xs is not empty
\* and pred holds of every element; pred is invoked on the elements up to
\* and including the first one it rejects, in order, and on no later one,
\* and then the result is false
C11_ToAll ==
  (FromSink("to_all") /\ pc = "done") =>
    LET n == FirstRejected(sink.f, container)
    IN  /\ result = (container # <<>> /\ \A i \in 1..Len(container) : Test(sink.f, container[i]))
        /\ Len(FnAt(1)) = Min(n, Len(container))
        /\ \A i \in 1..Len(FnAt(1)) : FnAt(1)[i].val = container[i]
        /\ n <= Len(container) => result = FALSE

\* to_all stopped by a mismatch in the middle of the container
C11_Witness ==
  /\ FromSink("to_all") /\ pc = "done"
  /\ Len(container) = 3
  /\ FirstRejected(sink.f, container) = 2
  /\ Test(sink.f, container[3])
  /\ Len(FnAt(1)) = 2
  /\ result = FALSE

\* C12: from (xs) >> to_any (pred) returns true exactly when pred holds of
\* some element; pred is invoked on the elements up to and including the
\* first one it accepts, in order, and on no later one
C12_ToAny ==
  (FromSink("to_any") /\ pc = "done") =>
    LET n == FirstAccepted(sink.f, container)
    IN  /\ result = (\E i \in 1..Len(container) : Test(sink.f, container[i]))
        /\ Len(FnAt(1)) = Min(n, Len(container))
        /\ \A i \in 1..Len(FnAt(1)) : FnAt(1)[i].val = container[i]

\* to_any stopped by a match in the middle of the container, with an
\* element after it that pred rejects
C12_Witness ==
  /\ FromSink("to_any") /\ pc = "done"
  /\ Len(container) = 3
  /\ FirstAccepted(sink.f, container) = 2
  /\ ~Test(sink.f, container[3])
  /\ Len(FnAt(1)) = 2
  /\ result = TRUE

\* ------------------------------------------------------------------------
\* Prefixes and suffixes
\* ------------------------------------------------------------------------

\* C13: from (xs) >> take_while (p) >> to_vector is the longest prefix of xs
\* whose elements all satisfy p: the traversal stops at the first element p
\* rejects, which is not forwarded, and no later element is forwarded even
\* if it satisfies p; take_while (always false) yields the empty vector
C13_TakeWhileIsPrefix ==
  (FromPipe("take_while") /\ pc = "done" /\ sink.kind = "to_vector") =>
    LET n == FirstRejected(stages[1].f, container)
    IN  /\ result = SubSeq(container, 1, n - 1)
        /\ Len(CallsAt(1)) = Min(n, Len(container))
        /\ Len(CallsAt(2)) = n - 1
        /\ stages[1].f = "map_false" => result = <<>>

\* take_while stopped in the middle, with an element p accepts after the
\* one it rejected
C13_Witness ==
  /\ FromPipe("take_while") /\ pc = "done" /\ sink.kind = "to_vector"
  /\ Len(container) = 3
  /\ FirstRejected(stages[1].f, container) = 2
  /\ Test(stages[1].f, container[3])
  /\ result = <<container[1]>>

\* C14: from (xs) >> skip_while (p) >> to_vector is the suffix of xs that
\* starts at the first element p rejects, that element included; after it
\* every element is forwarded without asking p; when p holds of all of xs
\* the result is empty
C14_SkipWhileIsSuffix ==
  (FromPipe("skip_while") /\ pc = "done" /\ sink.kind = "to_vector") =>
    LET n == FirstRejected(stages[1].f, container)
    IN  /\ result = SubSeq(container, n, Len(container))
        /\ Len(FnAt(1)) = Min(n, Len(container))
        /\ n > Len(container) => result = <<>>

\* skip_while over a container whose second element is the first p rejects
\* and whose third p accepts: both are in the result
C14_Witness ==
  /\ FromPipe("skip_while") /\ pc = "done" /\ sink.kind = "to_vector"
  /\ Len(container) = 3
  /\ FirstRejected(stages[1].f, container) = 2
  /\ Test(stages[1].f, container[3])
  /\ result = <<container[2], container[3]>>

\* C15: from (xs) >> skip (n) >> to_vector is xs without its first
\* min (n, len (xs)) elements, so its length plus min (n, len (xs)) is
\* len (xs), and the first min (n, len (xs)) elements of xs (what take (n)
\* yields, C5) followed by it give xs back
C15_SkipIsSuffix ==
  (FromPipe("skip") /\ pc = "done" /\ sink.kind = "to_vector") =>
    LET m == Min(stages[1].n, Len(container))
    IN  /\ result = SubSeq(container, m + 1, Len(container))
        /\ Len(result) + m = Len(container)
        /\ SubSeq(container, 1, m) \o result = container

\* a skip that dropped some elements of a longer container and kept the rest
C15_Witness ==
  /\ FromPipe("skip") /\ pc = "done" /\ sink.kind = "to_vector"
  /\ stages[1].n > 0
  /\ stages[1].n < Len(container)
  /\ Len(result) = Len(container) - stages[1].n
  /\ container[1] # container[Len(container)]

\* ------------------------------------------------------------------------
\* append
\* ------------------------------------------------------------------------

\* what a source holds, front to back, when it is traversed
ValuesOf(source) ==
  IF source.kind = "from"
  THEN SubSeq(container, source.begin, source.end - 1)
  ELSE Elements(source)

\* C16: a >> append (b) >> to_vector is the elements of a, in order, then
\* the elements of b, in order; its length is len (a) + len (b), also when
\* a or b is empty
C16_AppendConcatenates ==
  (/\ pc = "done" /\ Len(stages) = 1 /\ stages[1].kind = "append"
   /\ sink.kind = "to_vector") =>
    /\ result = ValuesOf(src) \o ValuesOf(stages[1].other)
    /\ Len(result) = Len(ValuesOf(src)) + Len(ValuesOf(stages[1].other))

\* an append of two non-empty sources that hold different elements
C16_Witness ==
  /\ pc = "done" /\ Len(stages) = 1 /\ stages[1].kind = "append"
  /\ sink.kind = "to_vector"
  /\ src.kind = "from"
  /\ stages[1].other.kind = "range"
  /\ Len(container) >= 2
  /\ container # ValuesOf(stages[1].other)
  /\ Len(result) = Len(container) + MaxCount

\* C16, a non-empty source followed by an empty one
C16_WitnessEmptyOther ==
  /\ pc = "done" /\ Len(stages) = 1 /\ stages[1].kind = "append"
  /\ sink.kind = "to_vector"
  /\ ValuesOf(src) # <<>>
  /\ ValuesOf(stages[1].other) = <<>>
  /\ result = ValuesOf(src)

\* ------------------------------------------------------------------------
\* collect
\* ------------------------------------------------------------------------

\* the user function of level k was not invoked after the callback of level
\* k + 1 had returned false
NoFnAfterStop(k) ==
  \A i, j \in 1..Len(log) :
    (i < j /\ log[i].ev = "cb" /\ log[i].lvl = k + 1 /\ ~log[i].ret) =>
      ~(log[j].ev = "fn" /\ log[j].lvl = k)

\* C17: in s >> collect (selector) >> sink, when the downstream callback
\* returns false while an inner source is drained, the inner traversal ends,
\* collect's callback returns false, the selector is not called on any
\* later outer element and the downstream callback is not invoked again
C17_CollectPropagatesStop ==
  \A k \in 1..Len(stages) :
    stages[k].kind = "collect" =>
      /\ StopsOnce(k + 1)
      /\ ReturnsStop(k)
      /\ NoFnAfterStop(k)

\* C17 holds of every expression with no append upstream of collect
C17_HoldsWithoutAppendUpstream ==
  \A k \in 1..Len(stages) :
    (/\ stages[k].kind = "collect"
     /\ \A j \in 1..(k - 1) : stages[j].kind # "append") =>
      /\ StopsOnce(k + 1)
      /\ ReturnsStop(k)
      /\ NoFnAfterStop(k)

\* a stop in the middle of an inner source of two elements, with outer
\* elements left: neither the rest of the inner source nor they were pushed
C17_StopInsideInner ==
  /\ pc = "done"
  /\ Len(stages) = 2
  /\ stages[1].kind = "map" /\ stages[2].kind = "collect"
  /\ src.kind = "from" /\ Len(container) >= 2
  /\ FnAt(2) # <<>> /\ FnAt(2)[1].val = 2
  /\ Len(CallsAt(3)) = 1 /\ ~CallsAt(3)[1].ret
  /\ Len(FnAt(2)) = 1

RECURSIVE Flatten(_, _)

\* what the pipe g lets through of xs: all of it when there is no pipe, the
\* first n under take (n), the longest prefix the taker accepts under
\* take_while (taker)
Taken(g, xs) ==
  CASE g.kind = "take"       -> SubSeq(xs, 1, Min(g.n, Len(xs)))
    [] g.kind = "take_while" ->
         SubSeq(xs, 1,
                IF \E i \in 1..Len(xs) : ~Test(g.f, xs[i])
                THEN (CHOOSE i \in 1..Len(xs) :
                        /\ ~Test(g.f, xs[i])
                        /\ \A j \in 1..(i - 1) : Test(g.f, xs[j])) - 1
                ELSE Len(xs))
    [] OTHER                 -> xs

\* the elements of the inner sources the collector f returns for xs, one
\* inner source after the other
Flatten(f, xs) ==
  IF xs = <<>>
  THEN <<>>
  ELSE Taken(InnerPipe(f), ValuesOf(Select(f, Head(xs)))) \o Flatten(f, Tail(xs))

\* C18: from (xs) >> collect (sel) >> to_vector is the concatenation, in the
\* order of xs, of all the elements of sel (x) for each x; an outer element
\* whose inner source is empty contributes nothing and does not end the
\* traversal: sel is called on every element of xs
C18_CollectConcatenates ==
  (FromPipe("collect") /\ pc = "done" /\ sink.kind = "to_vector") =>
    /\ result = Flatten(stages[1].f, container)
    /\ Len(FnAt(1)) = Len(container)
    /\ \A i \in 1..Len(container) : FnAt(1)[i].val = container[i]

\* a collect whose second inner source is empty and whose first and third
\* are not
C18_Witness ==
  /\ FromPipe("collect") /\ pc = "done" /\ sink.kind = "to_vector"
  /\ Len(container) = 3
  /\ ValuesOf(Select(stages[1].f, container[1])) # <<>>
  /\ ValuesOf(Select(stages[1].f, container[2])) = <<>>
  /\ ValuesOf(Select(stages[1].f, container[3])) # <<>>
  /\ Len(result) = 2

\* C18, inner sources of two different elements each
C18_WitnessLongInner ==
  /\ FromPipe("collect") /\ pc = "done" /\ sink.kind = "to_vector"
  /\ stages[1].f = "pair"
  /\ Len(container) = 2
  /\ container[1] # container[2]
  /\ result = <<container[1], container[1] + 1, container[2], container[2] + 1>>

\* ------------------------------------------------------------------------
\* reverse
\* ------------------------------------------------------------------------

\* C19: in s >> reverse >> sink the upstream has delivered every one of its
\* elements before the downstream callback is first invoked: reverse's
\* callback never stops its upstream, it is not invoked once the downstream
\* callback has been, and a source reverse is applied to directly has pushed
\* all its elements by then; also when the sink or a take right after
\* reverse stops after the first output
C19_ReverseDrainsFirst ==
  \A k \in 1..Len(stages) :
    stages[k].kind = "reverse" =>
      /\ \A i \in 1..Len(CallsAt(k)) : CallsAt(k)[i].ret
      /\ \A i, j \in 1..Len(log) :
           (i < j /\ log[i].ev = "cb" /\ log[i].lvl = k + 1) =>
             ~(log[j].ev = "cb" /\ log[j].lvl = k)
      /\ (k = 1 /\ CallsAt(2) # <<>>) =>
           /\ Len(CallsAt(1)) = Len(SourceValues)
           /\ \A i \in 1..Len(SourceValues) : CallsAt(1)[i].val = SourceValues[i]

\* from (xs) >> reverse >> take (1) >> sink over three elements: take let
\* one output through and stopped the replay at the second, and the source
\* had pushed all three
C19_Witness ==
  /\ pc = "done"
  /\ src.kind = "from" /\ Len(container) = 3
  /\ Len(stages) = 2
  /\ stages[1].kind = "reverse"
  /\ stages[2].kind = "take" /\ stages[2].n = 1
  /\ Len(CallsAt(1)) = 3
  /\ Len(CallsAt(2)) = 2 /\ ~CallsAt(2)[2].ret
  /\ Len(CallsAt(3)) = 1

\* C19, a sink that stops at the first output
C19_WitnessSinkStops ==
  /\ pc = "done"
  /\ FromPipe("reverse") /\ Len(container) = 3
  /\ sink.kind = "to_first_or_default"
  /\ Len(CallsAt(1)) = 3
  /\ Len(CallsAt(2)) = 1 /\ ~CallsAt(2)[1].ret
  /\ result = container[3]

\* xs back to front
Reversed(xs) == [i \in 1..Len(xs) |-> xs[Len(xs) + 1 - i]]

\* C20: from (xs) >> reverse >> to_vector is xs reversed, and
\* from (xs) >> reverse >> reverse >> to_vector is xs
C20_ReverseReverses ==
  /\ (FromPipe("reverse") /\ pc = "done" /\ sink.kind = "to_vector") =>
       result = Reversed(container)
  /\ (/\ pc = "done" /\ src.kind = "from" /\ sink.kind = "to_vector"
      /\ Len(stages) = 2
      /\ stages[1].kind = "reverse" /\ stages[2].kind = "reverse") =>
       result = container

\* a reverse of three elements whose first and last differ
C20_Witness ==
  /\ FromPipe("reverse") /\ pc = "done" /\ sink.kind = "to_vector"
  /\ Len(container) = 3
  /\ container[1] # container[3]
  /\ result = <<container[3], container[2], container[1]>>

\* C20, reverse applied twice to such a container
C20_WitnessTwice ==
  /\ pc = "done" /\ src.kind = "from" /\ sink.kind = "to_vector"
  /\ Len(stages) = 2
  /\ stages[1].kind = "reverse" /\ stages[2].kind = "reverse"
  /\ Len(container) = 3
  /\ container[1] # container[3]
  /\ result = container

\* ------------------------------------------------------------------------
\* from_range
\* ------------------------------------------------------------------------

\* C28: from_range (begin, end) pushes begin, begin + 1, ..., end - 1 in
\* increasing order, end - begin elements, when begin < end, and nothing
\* when begin >= end: what it has pushed is a prefix of that sequence, and
\* all of it once a traversal that no callback stopped is over
C28_FromRangeHalfOpen ==
  src.kind = "range" =>
    LET calls == CallsAt(1)
    IN  /\ Len(calls) <= (IF src.begin < src.end THEN src.end - src.begin ELSE 0)
        /\ \A i \in 1..Len(calls) : calls[i].val = src.begin + (i - 1)
        /\ (pc = "done" /\ \A i \in 1..Len(calls) : calls[i].ret) =>
             Len(calls) = (IF src.begin < src.end THEN src.end - src.begin ELSE 0)

\* C28 holds of every traversal in which no callback writes the loop
\* variable through the reference it is given
C28_HoldsWithoutLoopVariableWrite ==
  sink.f # "inc" => C28_FromRangeHalfOpen

\* from_range (0, MaxCount) >> to_vector: all of 0 .. MaxCount - 1
C28_FullRange ==
  /\ pc = "done"
  /\ src = from_range(0, MaxCount)
  /\ stages = <<>> /\ sink.kind = "to_vector"
  /\ Len(result) = MaxCount
  /\ \A i \in 1..MaxCount : result[i] = i - 1

\* from_range (0, MaxCount) >> to_iter (v += 1): the callback was invoked
\* on 0 and never on 1
C28_SkippedElement ==
  /\ pc = "done"
  /\ src = from_range(0, MaxCount)
  /\ stages = <<>> /\ sink = Sink("to_iter", "inc")
  /\ CallsAt(1) # <<>> /\ CallsAt(1)[1].val = 0
  /\ \A i \in 1..Len(CallsAt(1)) : CallsAt(1)[i].val # 1

\* ------------------------------------------------------------------------
\* sort and sort_by
\* ------------------------------------------------------------------------

\* ys holds the elements of xs, each as many times as xs does
IsPermutation(ys, xs) ==
  /\ Len(ys) = Len(xs)
  /\ \A i \in 1..Len(xs) :
       Cardinality({j \in 1..Len(ys) : ys[j] = xs[i]})
         = Cardinality({j \in 1..Len(xs) : xs[j] = xs[i]})

\* C21: from (xs) >> sort (cmp) >> to_vector is non-decreasing under cmp (no
\* adjacent pair y[i], y[i + 1] has cmp (y[i + 1], y[i])) and is a
\* permutation of xs
C21_SortSorts ==
  (/\ FromPipe("sort") /\ stages[1].f \in Comparators
   /\ pc = "done" /\ sink.kind = "to_vector") =>
    /\ \A i \in 1..(Len(result) - 1) : ~Less(stages[1].f, result[i + 1], result[i])
    /\ IsPermutation(result, container)

\* a sort that had to move elements: three elements, not all equal, out of
\* order in the container
C21_Witness ==
  /\ FromPipe("sort") /\ stages[1].f \in Comparators
  /\ pc = "done" /\ sink.kind = "to_vector"
  /\ Len(container) = 3
  /\ Less(stages[1].f, container[2], container[1])
  /\ result # container

\* C22: from (xs) >> sort_by (k) >> to_vector is ordered by non-decreasing
\* k and is a permutation of xs: sort_by (k) is sort with the comparator
\* (l, r) => k (l) < k (r)
C22_SortByKey ==
  (/\ FromPipe("sort") /\ stages[1].f \notin Comparators
   /\ pc = "done" /\ sink.kind = "to_vector") =>
    /\ stages[1] = sort_by(stages[1].f)
    /\ \A i \in 1..(Len(result) - 1) :
         Key(stages[1].f, result[i]) <= Key(stages[1].f, result[i + 1])
    /\ IsPermutation(result, container)

\* sort_by with a key that orders the elements against their values
C22_Witness ==
  /\ FromPipe("sort") /\ stages[1].f = "negate"
  /\ pc = "done" /\ sink.kind = "to_vector"
  /\ Len(container) = 3
  /\ container[1] < container[3]
  /\ result[1] > result[3]

\* ------------------------------------------------------------------------
\* mapi, filter, map
\* ------------------------------------------------------------------------

\* [f (0, xs[0]), f (1, xs[1]), ...]
Indexed(f, xs) == [i \in 1..Len(xs) |-> ApplyI(f, i - 1, xs[i])]

\* the elements of xs that satisfy f, in the order of xs
Kept(f, xs) == SelectSeq(xs, LAMBDA x : Test(f, x))

\* the expression is  from (container) >> first >> second >> to_vector,
\* and its value has been returned
FromPipesToVector(first, second) ==
  /\ pc = "done"
  /\ src.kind = "from"
  /\ sink.kind = "to_vector"
  /\ Len(stages) = 2
  /\ stages[1].kind = first
  /\ stages[2].kind = second

\* C23: from (xs) >> mapi (fn) >> to_vector is [fn (0, xs[0]),
\* fn (1, xs[1]), ...]; the index counts the elements that reach mapi, so
\* with a filter before mapi it counts the elements the filter let through
\* and with a filter after mapi it is the position in xs
C23_MapiIndexes ==
  /\ (FromPipe("mapi") /\ pc = "done" /\ sink.kind = "to_vector") =>
       result = Indexed(stages[1].f, container)
  /\ FromPipesToVector("filter", "mapi") =>
       result = Indexed(stages[2].f, Kept(stages[1].f, container))
  /\ FromPipesToVector("mapi", "filter") =>
       result = Kept(stages[2].f, Indexed(stages[1].f, container))

\* a filter before mapi that dropped the first element and kept the next
\* two: they got the indices 0 and 1
C23_Witness ==
  /\ FromPipesToVector("filter", "mapi")
  /\ Len(container) = 3
  /\ ~Test(stages[1].f, container[1])
  /\ Test(stages[1].f, container[2])
  /\ Test(stages[1].f, container[3])
  /\ result = <<ApplyI(stages[2].f, 0, container[2]), ApplyI(stages[2].f, 1, container[3])>>

\* C23, a filter after mapi that dropped the first mapped element: the
\* next one kept the index of its position in the container
C23_WitnessFilterAfter ==
  /\ FromPipesToVector("mapi", "filter")
  /\ Len(container) = 3
  /\ ~Test(stages[2].f, ApplyI(stages[1].f, 0, container[1]))
  /\ Test(stages[2].f, ApplyI(stages[1].f, 1, container[2]))
  /\ result[1] = ApplyI(stages[1].f, 1, container[2])

\* C23, the mapper that returns the index
C23_WitnessIndex ==
  /\ FromPipe("mapi") /\ pc = "done" /\ sink.kind = "to_vector"
  /\ stages[1].f = "index"
  /\ Len(container) = 3
  /\ result = <<0, 1, 2>>

\* C24: from (xs) >> filter (p) >> to_vector is the subsequence of xs whose
\* elements satisfy p, in the order of xs; a dropped element never ends the
\* traversal: filter's callback is invoked on every element of xs and
\* returns true each time
C24_FilterKeeps ==
  (FromPipe("filter") /\ pc = "done" /\ sink.kind = "to_vector") =>
    /\ result = Kept(stages[1].f, container)
    /\ Len(CallsAt(1)) = Len(container)
    /\ \A i \in 1..Len(CallsAt(1)) : CallsAt(1)[i].ret

\* a filter that dropped the first and the last of three elements and kept
\* the one between
C24_Witness ==
  /\ FromPipe("filter") /\ pc = "done" /\ sink.kind = "to_vector"
  /\ Len(container) = 3
  /\ ~Test(stages[1].f, container[1])
  /\ Test(stages[1].f, container[2])
  /\ ~Test(stages[1].f, container[3])
  /\ result = <<container[2]>>

\* [f (xs[0]), f (xs[1]), ...]
Mapped(f, xs) == [i \in 1..Len(xs) |-> Apply(f, xs[i])]

\* C25: from (xs) >> map (f) >> to_vector is [f (xs[0]), f (xs[1]), ...]:
\* as long as xs, in the order of xs, f applied exactly once to each element
C25_MapApplies ==
  (FromPipe("map") /\ pc = "done" /\ sink.kind = "to_vector") =>
    /\ result = Mapped(stages[1].f, container)
    /\ Len(result) = Len(container)
    /\ Len(FnAt(1)) = Len(container)
    /\ \A i \in 1..Len(container) : FnAt(1)[i].val = container[i]

\* a map that changed some of three elements
C25_Witness ==
  /\ FromPipe("map") /\ pc = "done" /\ sink.kind = "to_vector"
  /\ Len(container) = 3
  /\ container[1] # container[2]
  /\ result # container
  /\ result[1] = Apply(stages[1].f, container[1])
  /\ Len(FnAt(1)) = 3

\* ------------------------------------------------------------------------
\* to_vector and to_iter
\* ------------------------------------------------------------------------

\* C26: from (xs) >> to_vector is xs: the same elements in the same order,
\* as many, for an empty and a non-empty xs
C26_ToVectorCopies ==
  (FromSink("to_vector") /\ pc = "done") =>
    /\ result = container
    /\ Len(result) = Len(container)

\* to_vector over three elements that are not all equal
C26_Witness ==
  /\ FromSink("to_vector") /\ pc = "done"
  /\ Len(container) = 3
  /\ container[1] # container[3]
  /\ result = container

\* C26, the empty container
C26_WitnessEmpty ==
  /\ FromSink("to_vector") /\ pc = "done"
  /\ container = <<>>
  /\ result = <<>>

\* C27: in from (xs) >> to_iter (fn) what fn returns is the callback's
\* continue / stop signal: fn is invoked on xs[0], xs[1], ... in order up to
\* and including the first element for which it returns false and on none
\* after it; an fn that returns false on the first element sees one element
C27_ToIterStops ==
  FromSink("to_iter") =>
    /\ Len(FnAt(1)) <= Len(original)
    /\ \A i \in 1..Len(FnAt(1)) :
         /\ FnAt(1)[i].val = original[i]
         /\ CallsAt(1)[i].ret = FnAt(1)[i].ret
         /\ ~FnAt(1)[i].ret => i = Len(FnAt(1))
    /\ (pc = "done" /\ \A i \in 1..Len(FnAt(1)) : FnAt(1)[i].ret) =>
         Len(FnAt(1)) = Len(original)
    /\ (pc = "done" /\ sink.f = "sum_stop" /\ original # <<>>) =>
         Len(FnAt(1)) = 1

\* an fn that returned true on the first of three elements and false on the
\* second: it saw those two
C27_Witness ==
  /\ FromSink("to_iter") /\ pc = "done"
  /\ Len(container) = 3
  /\ Len(FnAt(1)) = 2
  /\ FnAt(1)[1].ret
  /\ ~FnAt(1)[2].ret
  /\ acc = container[1] + container[2]

\* ------------------------------------------------------------------------
\* from_repeat and from_singleton
\* ------------------------------------------------------------------------

\* C29: from_repeat (value, count) >> to_vector is count copies of value,
\* for every count >= 0 (none for count = 0), and from_singleton (value)
\* gives the traversal of from_repeat (value, 1): one element, value
C29_RepeatCopies ==
  (pc = "done" /\ src.kind = "repeat" /\ stages = <<>> /\ sink.kind = "to_vector") =>
    /\ Len(result) = src.end
    /\ \A i \in 1..Len(result) : result[i] = src.value
    /\ src.end = 0 => log = <<>>
    /\ src = from_singleton(src.value) =>
         (result = <<src.value>> /\ src = from_repeat(src.value, 1))

\* from_repeat with the largest count, a value that is not the default
C29_Witness ==
  /\ pc = "done" /\ stages = <<>> /\ sink.kind = "to_vector"
  /\ src = from_repeat(1, MaxCount)
  /\ Len(result) = MaxCount
  /\ result[MaxCount] = 1

\* C29, from_singleton
C29_WitnessSingleton ==
  /\ pc = "done" /\ stages = <<>> /\ sink.kind = "to_vector"
  /\ src = from_singleton(1)
  /\ result = <<1>>

\* ------------------------------------------------------------------------
\* to_max and to_min
\* ------------------------------------------------------------------------

\* initial and the elements of xs
WithInitial(initial, xs) == {initial} \cup {xs[i] : i \in 1..Len(xs)}

\* C30: to_max (initial) returns the greatest of initial and all elements of
\* the source, to_min (initial) the least: initial itself on an empty
\* source, and on a source whose elements are all below (to_max) or all
\* above (to_min) initial
C30_Extremum ==
  (pc = "done" /\ stages = <<>> /\ sink.kind \in {"to_max", "to_min"}) =>
    LET all == WithInitial(sink.initial, SourceValues)
    IN  /\ result \in all
        /\ sink.kind = "to_max" => \A x \in all : x <= result
        /\ sink.kind = "to_min" => \A x \in all : result <= x
        /\ SourceValues = <<>> => result = sink.initial
        /\ (sink.kind = "to_max" /\ \A i \in 1..Len(SourceValues) : SourceValues[i] < sink.initial) =>
             result = sink.initial
        /\ (sink.kind = "to_min" /\ \A i \in 1..Len(SourceValues) : SourceValues[i] > sink.initial) =>
             result = sink.initial

\* to_max over three elements with the greatest in the middle and an
\* initial value below it
C30_Witness ==
  /\ pc = "done" /\ FromSink("to_max")
  /\ Len(container) = 3
  /\ container[1] < container[2]
  /\ container[3] < container[2]
  /\ sink.initial < container[2]
  /\ result = container[2]

\* C30, to_min over elements that are all above initial
C30_WitnessInitialWins ==
  /\ pc = "done" /\ FromSink("to_min")
  /\ Len(container) = 3
  /\ \A i \in 1..3 : container[i] > sink.initial
  /\ result = sink.initial

\* ------------------------------------------------------------------------
\* to_sum and to_fold
\* ------------------------------------------------------------------------

RECURSIVE Sum(_)

\* the sum of the elements of xs
Sum(xs) == IF xs = <<>> THEN 0 ELSE Head(xs) + Sum(Tail(xs))

RECURSIVE FoldLeft(_, _, _)

\* f (... f (f (a, xs[0]), xs[1]) ..., xs[n - 1])
FoldLeft(f, a, xs) ==
  IF xs = <<>> THEN a ELSE FoldLeft(f, Folder(f, a, Head(xs)), Tail(xs))

\* C31: from (xs) >> to_sum and from (xs) >> to_fold (0, +) both are the sum
\* of the elements of xs, 0 for the empty xs, so they are equal;
\* to_fold (initial, folder) is the left fold of folder over xs from initial
C31_SumIsFold ==
  /\ (FromSink("to_sum") /\ pc = "done") =>
       result = Sum(container)
  /\ (FromSink("to_fold") /\ pc = "done") =>
       /\ result = FoldLeft(sink.f, sink.initial, container)
       /\ sink = Folding(0, "plus") => result = Sum(container)

\* a left fold with a folder that does not commute, over elements that
\* differ: folding from the right gives another value
C31_Witness ==
  /\ FromSink("to_fold") /\ pc = "done"
  /\ sink.f = "double_plus"
  /\ Len(container) = 3
  /\ container[1] # container[3]
  /\ result = 2 * (2 * (2 * sink.initial + container[1]) + container[2]) + container[3]

\* C31, to_sum over several elements
C31_WitnessSum ==
  /\ FromSink("to_sum") /\ pc = "done"
  /\ Len(container) = 3
  /\ result = container[1] + container[2] + container[3]
  /\ result > 0

\* ------------------------------------------------------------------------
\* Sinks on an empty source, sinks that never stop
\* ------------------------------------------------------------------------

\* C32: on an empty source to_first_or_default and to_last_or_default return
\* the default value (int () = 0), to_length 0, to_sum 0, and to_vector,
\* to_set and to_map empty containers; on a non-empty source
\* to_last_or_default returns the last element and to_length the number of
\* elements
C32_EmptyAndLast ==
  (pc = "done" /\ stages = <<>>) =>
    /\ (EmptySource /\ sink.kind \in {"to_first_or_default", "to_last_or_default",
                                       "to_length", "to_sum"}) => result = 0
    /\ (EmptySource /\ sink.kind = "to_vector") => result = <<>>
    /\ (EmptySource /\ sink.kind \in {"to_set", "to_map"}) => result = {}
    /\ (~EmptySource /\ sink.kind = "to_last_or_default") =>
         result = SourceValues[Len(SourceValues)]
    /\ sink.kind = "to_length" => result = Len(SourceValues)

\* to_last_or_default over three elements whose last is neither the first
\* nor the default
C32_Witness ==
  /\ pc = "done" /\ FromSink("to_last_or_default")
  /\ Len(container) = 3
  /\ container[3] # container[1]
  /\ container[3] # 0
  /\ result = container[3]

\* C32, to_map on an empty container
C32_WitnessEmpty ==
  /\ pc = "done" /\ FromSink("to_map")
  /\ container = <<>>
  /\ result = {}

\* C32, to_length over three elements
C32_WitnessLength ==
  /\ pc = "done" /\ FromSink("to_length")
  /\ Len(container) = 3
  /\ result = 3

\* the sinks C33 is about
NeverStop ==
  {"to_vector", "to_set", "to_map", "to_sum", "to_fold", "to_last_or_default",
   "to_length", "to_max", "to_min"}

\* the pipes that never initiate a stop
NeverStopPipes == {"filter", "map", "mapi", "skip", "skip_while"}

\* the expression is from (container) >> S or from (container) >> P >> S
\* for a sink S and a pipe P of C33
NeverStopping ==
  /\ src.kind = "from"
  /\ sink.kind \in NeverStop
  /\ \/ stages = <<>>
     \/ Len(stages) = 1 /\ stages[1].kind \in NeverStopPipes

\* C33: to_vector, to_set, to_map, to_sum, to_fold, to_last_or_default,
\* to_length, to_max and to_min never stop early: their callback returns
\* true on every invocation, so from (xs) >> S reads all len (xs) elements,
\* and so does from (xs) >> P >> S for P among filter, map, mapi, skip and
\* skip_while, whose callbacks return true as well
C33_SinksNeverStop ==
  NeverStopping =>
    /\ \A i \in 1..Len(log) : log[i].ev = "cb" => log[i].ret
    /\ pc = "done" => Len(CallsAt(1)) = Len(container)

\* to_set under a filter, over three elements two of which are equal: all
\* three were read
C33_Witness ==
  /\ NeverStopping /\ pc = "done"
  /\ sink.kind = "to_set"
  /\ Len(stages) = 1 /\ stages[1].kind = "filter"
  /\ Len(container) = 3
  /\ container[1] = container[2]
  /\ Test(stages[1].f, container[1])
  /\ Len(CallsAt(1)) = 3
  /\ Len(CallsAt(2)) >= 2

\* ------------------------------------------------------------------------
\* Streaming
\* ------------------------------------------------------------------------

\* the pipes that forward or drop each element as it comes
Streaming ==
  {"filter", "map", "mapi", "skip", "skip_while", "take", "take_while", "append", "collect"}

\* the position of the last callback invocation logged before position j,
\* 0 if there is none
PreviousCall(j) ==
  IF \E i \in 1..(j - 1) : log[i].ev = "cb"
  THEN CHOOSE i \in 1..(j - 1) :
         log[i].ev = "cb" /\ \A m \in (i + 1)..(j - 1) : log[m].ev # "cb"
  ELSE 0

\* every invocation of a callback below the first is made by the callback
\* one level up while that one handles its element: it directly follows
\* that callback's invocation, or, downstream of collect, the handling of
\* the previous element of the same inner source; the callback after append
\* is also the one append's other source reads its elements into
CalledInPlace ==
  \A j \in 1..Len(log) :
    (log[j].ev = "cb" /\ log[j].lvl >= 2) =>
      \/ /\ PreviousCall(j) # 0
         /\ log[PreviousCall(j)].lvl = log[j].lvl - 1
      \/ /\ PreviousCall(j) # 0
         /\ stages[log[j].lvl - 1].kind = "collect"
         /\ log[PreviousCall(j)].lvl >= log[j].lvl
      \/ stages[log[j].lvl - 1].kind = "append"

\* C34: in a pipeline made only of filter, map, mapi, skip, skip_while,
\* take, take_while, append and collect, each element the source reads is
\* dropped or delivered to the sink's callback, after the user function of
\* every stage ran on it, before the source reads its next element: no
\* stage has a buffer, the only loops are those of the sources, and every
\* callback is invoked within the handling of the element that caused it
C34_StreamingPipesDoNotBuffer ==
  (pc # "composing" /\ \A k \in 1..Len(stages) : stages[k].kind \in Streaming) =>
    /\ \A k \in 1..Len(st) : st[k].result = <<>>
    /\ driver = 0 \/ stages[driver].kind = "append"
    /\ CalledInPlace

\* skip (1) >> map over three elements: the first was dropped by skip, the
\* other two reached the sink, each before the source read on
C34_Witness ==
  /\ pc = "done" /\ src.kind = "from" /\ Len(container) = 3
  /\ Len(stages) = 2
  /\ stages[1].kind = "skip" /\ stages[1].n = 1
  /\ stages[2].kind = "map"
  /\ sink.kind = "to_vector"
  /\ Len(CallsAt(1)) = 3
  /\ Len(CallsAt(3)) = 2

\* the buffering pipes fail the reading of the log C34 uses: under reverse a
\* downstream callback is invoked after an invocation that is not its
\* caller's
C34_ReverseIsNotInPlace ==
  /\ Len(stages) = 1 /\ stages[1].kind = "reverse"
  /\ ~CalledInPlace

\* ------------------------------------------------------------------------
\* collect: inner sources that end their own traversal
\* ------------------------------------------------------------------------

\* the invocations of collect k's callback that returned false had the
\* downstream callback return false within them
StopsOnlyFromDownstream(k) ==
  \A j \in 1..Len(log) :
    (log[j].ev = "cb" /\ log[j].lvl = k /\ ~log[j].ret) =>
      \E i \in (j + 1)..Len(log) :
        /\ log[i].ev = "cb" /\ log[i].lvl = k + 1 /\ ~log[i].ret
        /\ \A m \in (j + 1)..(i - 1) : ~(log[m].ev = "cb" /\ log[m].lvl <= k)

\* C36: in s >> collect (selector) >> sink a stop made inside an inner
\* source (its take or take_while returning false) does not stop the outer
\* traversal: collect's callback returns false only when the downstream
\* callback returned false within it, and as long as the downstream
\* callback has not returned false the selector is called on every outer
\* element
C36_InnerStopStaysInside ==
  /\ \A k \in 1..Len(stages) :
       stages[k].kind = "collect" => StopsOnlyFromDownstream(k)
  /\ (/\ FromPipe("collect") /\ pc = "done"
      /\ \A i \in 1..Len(CallsAt(2)) : CallsAt(2)[i].ret) =>
        /\ Len(FnAt(1)) = Len(container)
        /\ \A i \in 1..Len(CallsAt(1)) : CallsAt(1)[i].ret

\* the inner pipe of the first outer element ended the inner traversal, and
\* the selector was called on the two outer elements after it
C36_Witness ==
  /\ FromPipe("collect") /\ pc = "done" /\ sink.kind = "to_vector"
  /\ InnerPipe(stages[1].f) # NoPipe
  /\ Len(container) = 3
  /\ Len(log) > 2 /\ log[1].ev = "cb" /\ log[1].lvl = 1 /\ log[1].ret
  /\ \E i \in 1..Len(log) :
       /\ log[i].ev = "inner" /\ ~log[i].ret
       /\ \A m \in 1..(i - 1) : log[m].ev # "fn" \/ log[m].val = container[1]
  /\ Len(FnAt(1)) = 3

\* C36, an inner take_while that rejects its first element: the downstream
\* callback is not called for this outer element, whose callback returns
\* true as result is still what it was initialised to
C36_WitnessNothingTaken ==
  /\ FromPipe("collect") /\ pc = "done" /\ sink.kind = "to_vector"
  /\ stages[1].f = "pair_take_while"
  /\ container = <<1, 0>>
  /\ result = <<0>>
  /\ CallsAt(1)[1].ret

\* C36, a downstream that stops: the inner take never gets to end the
\* inner traversal
C36_WitnessDownstreamStops ==
  /\ FromPipe("collect") /\ pc = "done" /\ sink.kind = "to_first_or_default"
  /\ stages[1].f = "pair_take"
  /\ Len(container) = 2
  /\ Len(FnAt(1)) = 1
  /\ Len(SelectSeq(log, LAMBDA e : e.ev = "inner")) = 1

\* ------------------------------------------------------------------------
\* from: the range is fixed at composition
\* ------------------------------------------------------------------------

\* C37: from (container) captures the begin and end positions when it is
\* called: whatever values are written to the elements afterwards, every
\* traversal goes over the positions the container had at composition,
\* front to back, and a traversal nothing stops visits that many elements
C37_FromFixesRange ==
  /\ src = from_iterators(1, Len(original) + 1)
  /\ Len(CallsAt(1)) <= Len(original)
  /\ (pc = "running" /\ ~halted) => iter = src.begin + Len(CallsAt(1))
  /\ (pc = "done" /\ \A i \in 1..Len(CallsAt(1)) : CallsAt(1)[i].ret) =>
       Len(CallsAt(1)) = Len(original)

\* an element was written after from (container), and the traversal went
\* over the three positions, reading what was written
C37_Witness ==
  /\ pc = "done"
  /\ Len(original) = 3
  /\ container # original
  /\ stages = <<>> /\ sink.kind = "to_vector"
  /\ Len(CallsAt(1)) = 3
  /\ result = container

\* C37, a sink that writes the elements ahead of the one it is given
C37_WitnessWritingSink ==
  /\ pc = "done"
  /\ Len(original) = 3
  /\ sink.kind = "to_iter" /\ sink.f = "poke_next"
  /\ stages = <<>>
  /\ container # original
  /\ Len(CallsAt(1)) = 3

\* ------------------------------------------------------------------------
\* Traversing a composed source again
\* ------------------------------------------------------------------------

\* the values the sink's callback was handed, in order, in a log
Delivered(l) ==
  [i \in 1..Len(SelectSeq(l, LAMBDA e : e.ev = "cb" /\ e.lvl = Len(stages) + 1))
     |-> SelectSeq(l, LAMBDA e : e.ev = "cb" /\ e.lvl = Len(stages) + 1)[i].val]

\* the sink's callback returned true every time in a log
NotStopped(l) ==
  \A i \in 1..Len(l) : (l[i].ev = "cb" /\ l[i].lvl = Len(stages) + 1) => l[i].ret

\* the sink writes the elements it is handed
Writing(k) == k.kind = "to_iter" /\ k.f \in {"inc", "poke_next"}

\* C35: a composed source can be traversed again and gives the same
\* elements: with the container not written, a sink applied to the same
\* composed source once more is handed the same element sequence, makes the
\* same invocations and returns the same result, and two different sinks
\* that neither write their elements nor stop the traversal are handed the
\* same sequence; the state of skip, take, skip_while, mapi, reverse and
\* sort starts afresh in every traversal
C35_TraversalsAgree ==
  (pc = "done" /\ past # <<>> /\ container = original) =>
    \A p \in 1..Len(past) :
      /\ past[p].sink = sink =>
           /\ Delivered(past[p].log) = Delivered(log)
           /\ past[p].log = log
           /\ past[p].result = result
      /\ (/\ ~Writing(past[p].sink) /\ ~Writing(sink)
          /\ NotStopped(past[p].log) /\ NotStopped(log)) =>
           Delivered(past[p].log) = Delivered(log)

\* skip (1) >> take (1) traversed twice over three elements: both times the
\* second element alone reached to_vector
C35_Witness ==
  /\ pc = "done" /\ past # <<>>
  /\ src.kind = "from" /\ Len(container) = 3
  /\ Len(stages) = 2
  /\ stages[1].kind = "skip" /\ stages[2].kind = "take"
  /\ sink.kind = "to_vector" /\ past[1].sink = sink
  /\ result = <<container[2]>>
  /\ past[1].result = result

\* C35, pipes with a buffer and an index: sort >> mapi traversed by
\* to_vector and then by to_length
C35_WitnessBuffer ==
  /\ pc = "done" /\ past # <<>>
  /\ src.kind = "from" /\ Len(container) = 3
  /\ Len(stages) = 2
  /\ stages[1].kind = "sort" /\ stages[2].kind = "mapi"
  /\ sink.kind = "to_length" /\ past[1].sink.kind = "to_vector"
  /\ Len(past[1].result) = 3 /\ result = 3

\* a sink that wrote the container's elements in the first traversal: the
\* second traversal is handed other values
C35_WrittenContainerDiffers ==
  /\ pc = "done" /\ past # <<>>
  /\ container # original
  /\ past[1].sink = sink
  /\ Delivered(past[1].log) # Delivered(log)

====
